---- MODULE Spec2Model ----
(***************************************************************************)
(* A model of the ynab-importer core: the rule repository (app/models.py,  *)
(* app/routers/rules.py), the rules engine (app/rules/engine.py), the CSV  *)
(* upload handler (app/routers/upload.py) and the OP bank parser           *)
(* (app/parsers/op_bank.py).                                               *)
(*                                                                         *)
(* Conventions.  A Python str is a sequence of one-character strings.  A   *)
(* Python Optional value is None == <<>> or Some(x) == <<x>>.  A float     *)
(* amount is the integer number of thousandths it denotes (milliunits);    *)
(* the places where binary floating point differs from decimal arithmetic  *)
(* are listed explicitly (FloatDiffAboveTolerance).                        *)
(***************************************************************************)
EXTENDS Integers, Sequences, FiniteSets, TLC

VARIABLES
    rules,          \* the rules table: rules[i] is the row with id i
    rules_cache,    \* RulesEngine._rules_cache of the engine instance in use
    ret             \* the operation that ran last and what it returned

vars == <<rules, rules_cache, ret>>

(***************************************************************************)
(* Python values                                                           *)
(***************************************************************************)
None == <<>>
Some(x) == <<x>>

\* truthiness of an Optional[str]: None and "" are falsy
Truthy(o) == o # None /\ o[1] # <<>>

\* `x or None` on an Optional[str]
OrNone(o) == IF Truthy(o) THEN o ELSE None

LowerLetters == <<"a","b","c","d","e","f","g","h","i","j","k","l","m",
                  "n","o","p","q","r","s","t","u","v","w","x","y","z">>
UpperLetters == <<"A","B","C","D","E","F","G","H","I","J","K","L","M",
                  "N","O","P","Q","R","S","T","U","V","W","X","Y","Z">>

UpperChar(c) ==
    IF \E i \in 1..Len(LowerLetters) : LowerLetters[i] = c
    THEN UpperLetters[CHOOSE i \in 1..Len(LowerLetters) : LowerLetters[i] = c]
    ELSE c

\* str.upper()
Upper(s) == [i \in 1..Len(s) |-> UpperChar(s[i])]

\* `needle in hay`
Contains(hay, needle) ==
    \E i \in 0..(Len(hay) - Len(needle)) :
        \A j \in 1..Len(needle) : hay[i + j] = needle[j]

Chars(s) == {s[i] : i \in 1..Len(s)}

Min(S) == CHOOSE x \in S : \A y \in S : x <= y
Max(S) == CHOOSE x \in S : \A y \in S : x >= y
Abs(n) == IF n < 0 THEN -n ELSE n

(***************************************************************************)
(* Text helpers used by the parser                                         *)
(***************************************************************************)
\* "nbsp" stands for U+00A0 and "cr" for a carriage return
WhiteSpace == {" ", "nbsp", "cr"}

\* str.strip()
Strip(s) ==
    LET keep == {i \in 1..Len(s) : s[i] \notin WhiteSpace}
    IN  IF keep = {} THEN <<>> ELSE SubSeq(s, Min(keep), Max(keep))

\* s.replace(c, "")
RemoveChar(s, c) == SelectSeq(s, LAMBDA x : x # c)

\* s.replace(a, b) for single characters
ReplaceChar(s, a, b) == [i \in 1..Len(s) |-> IF s[i] = a THEN b ELSE s[i]]

DigitChars == <<"0","1","2","3","4","5","6","7","8","9">>
IsDigit(c) == \E i \in 1..Len(DigitChars) : DigitChars[i] = c
DigitVal(c) == (CHOOSE i \in 1..Len(DigitChars) : DigitChars[i] = c) - 1
AllDigits(s, from, to) == \A i \in from..to : IsDigit(s[i])

\* int(s) for a string of decimal digits
RECURSIVE StrToInt(_)
StrToInt(s) ==
    IF s = <<>> THEN 0
    ELSE 10 * StrToInt(SubSeq(s, 1, Len(s) - 1)) + DigitVal(s[Len(s)])

\* str(n) for n >= 0
RECURSIVE NatToStr(_)
NatToStr(n) ==
    IF n < 10 THEN <<DigitChars[n + 1]>>
    ELSE NatToStr(n \div 10) \o <<DigitChars[(n % 10) + 1]>>

\* str(n)
IntToStr(n) == IF n < 0 THEN <<"-">> \o NatToStr(-n) ELSE NatToStr(n)

\* n printed in at least `width` digits, zero filled
RECURSIVE ZeroPad(_, _)
ZeroPad(s, width) == IF Len(s) >= width THEN s ELSE ZeroPad(<<"0">> \o s, width)

(***************************************************************************)
(* OPBankParser._parse_finnish_date                                        *)
(***************************************************************************)
\* the splits (day digits, month digits) under which
\* re.match(r"(\d{1,2})\.(\d{1,2})\.(\d{4})", s) succeeds; the match is
\* anchored at the start only, so anything may follow the year
FinnishDateMatches(s) ==
    {nm \in {1, 2} \X {1, 2} :
        /\ Len(s) >= nm[1] + nm[2] + 6
        /\ AllDigits(s, 1, nm[1])
        /\ s[nm[1] + 1] = "."
        /\ AllDigits(s, nm[1] + 2, nm[1] + 1 + nm[2])
        /\ s[nm[1] + nm[2] + 2] = "."
        /\ AllDigits(s, nm[1] + nm[2] + 3, nm[1] + nm[2] + 6)}

\* re.match(r"(\d{4})-(\d{2})-(\d{2})", s), anchored at the start only
IsoDateMatches(s) ==
    /\ Len(s) >= 10
    /\ AllDigits(s, 1, 4)
    /\ s[5] = "-"
    /\ AllDigits(s, 6, 7)
    /\ s[8] = "-"
    /\ AllDigits(s, 9, 10)

IsLeapYear(y) == y % 4 = 0 /\ (y % 100 # 0 \/ y % 400 = 0)

DaysInMonth(y, m) ==
    IF m = 2 THEN (IF IsLeapYear(y) THEN 29 ELSE 28)
    ELSE IF m \in {4, 6, 9, 11} THEN 30 ELSE 31

\* datetime.MINYEAR and datetime.MAXYEAR
MINYEAR == 1
MAXYEAR == 9999

\* datetime(y, m, d) does not raise ValueError
DatetimeAccepts(y, m, d) ==
    /\ MINYEAR <= y /\ y <= MAXYEAR
    /\ 1 <= m /\ m <= 12
    /\ 1 <= d /\ d <= DaysInMonth(y, m)

\* dt.strftime("%Y-%m-%d").  %m and %d are always two digits; %Y is handed
\* to the C library, which zero-fills a year below 1000 on some platforms
\* and not on others (glibc prints 999), so the width of the year is a
\* property of the build: pads_year.
Strftime(y, m, d, pads_year) ==
    (IF pads_year THEN ZeroPad(NatToStr(y), 4) ELSE NatToStr(y))
        \o <<"-">> \o ZeroPad(NatToStr(m), 2)
        \o <<"-">> \o ZeroPad(NatToStr(d), 2)

\* Optional[str]: the ISO date, or None
parse_finnish_date(date_str, pads_year) ==
    LET s  == Strip(date_str)
        fi == FinnishDateMatches(s)
    IN  IF fi # {}
        THEN LET nm    == CHOOSE x \in fi : TRUE
                 day   == StrToInt(SubSeq(s, 1, nm[1]))
                 month == StrToInt(SubSeq(s, nm[1] + 2, nm[1] + 1 + nm[2]))
                 year  == StrToInt(SubSeq(s, nm[1] + nm[2] + 3, nm[1] + nm[2] + 6))
             IN  IF DatetimeAccepts(year, month, day)
                 THEN Some(Strftime(year, month, day, pads_year))
                 ELSE None
        ELSE IF IsoDateMatches(s) THEN Some(s)
        ELSE None

(***************************************************************************)
(* OPBankParser._parse_finnish_amount                                      *)
(***************************************************************************)
Unsigned(s) == IF s # <<>> /\ s[1] \in {"-", "+"} THEN SubSeq(s, 2, Len(s)) ELSE s

DotPositions(s) == {i \in 1..Len(s) : s[i] = "."}

\* float(s) does not raise ValueError: an optional sign, digits, at most one
\* point, at least one digit (the input alphabet of the model has no
\* exponent, underscore, "inf" or "nan")
FloatAccepts(s) ==
    LET u == Unsigned(s)
    IN  /\ u # <<>>
        /\ \A i \in 1..Len(u) : IsDigit(u[i]) \/ u[i] = "."
        /\ Cardinality(DotPositions(u)) <= 1
        /\ \E i \in 1..Len(u) : IsDigit(u[i])

\* float(s) in thousandths, for s with at most three digits after the point
FloatValue(s) ==
    LET u     == Unsigned(s)
        dots  == DotPositions(u)
        dot   == IF dots = {} THEN Len(u) + 1 ELSE CHOOSE i \in dots : TRUE
        whole == SubSeq(u, 1, dot - 1)
        frac  == IF dots = {} THEN <<>>
                 ELSE SubSeq(u \o <<"0", "0", "0">>, dot + 1, dot + 3)
        mag   == 1000 * StrToInt(whole) + StrToInt(frac)
    IN  IF s[1] = "-" THEN -mag ELSE mag

\* a reading in which every point is a thousands separator
parse_finnish_amount_drops_points(amount_str) ==
    IF ~Truthy(amount_str) THEN 0
    ELSE LET nospace == RemoveChar(RemoveChar(Strip(amount_str[1]), " "), "nbsp")
             decimal == ReplaceChar(RemoveChar(nospace, "."), ",", ".")
         IN  IF FloatAccepts(decimal) THEN FloatValue(decimal) ELSE 0

parse_finnish_amount(amount_str) ==
    IF ~Truthy(amount_str) THEN 0
    ELSE LET stripped == Strip(amount_str[1])
             nospace  == RemoveChar(RemoveChar(stripped, " "), "nbsp")
             nothou   == IF "," \in Chars(nospace) /\ "." \in Chars(nospace)
                         THEN RemoveChar(nospace, ".")
                         ELSE nospace
             decimal  == ReplaceChar(nothou, ",", ".")
         IN  IF FloatAccepts(decimal) THEN FloatValue(decimal) ELSE 0

(***************************************************************************)
(* OPBankParser._generate_import_id                                        *)
(***************************************************************************)
\* the amounts of the model whose float product amount * 1000 falls just
\* short of the whole number, e.g. 8.19 * 1000 = 8189.999999999999
FloatProductFallsShort == {8190, -8190, 1001, -1001}

\* int(amount * 1000): truncation toward zero of the float product
IntTimes1000(amount) ==
    IF amount \in FloatProductFallsShort
    THEN (IF amount < 0 THEN amount + 1 ELSE amount - 1)
    ELSE amount

RECURSIVE DropTrailingZeros(_)
DropTrailingZeros(s) ==
    IF Len(s) > 1 /\ s[Len(s)] = "0"
    THEN DropTrailingZeros(SubSeq(s, 1, Len(s) - 1))
    ELSE s

\* f"{amount}": the shortest decimal that reads back as the float
FloatRepr(amount) ==
    (IF amount < 0 THEN <<"-">> ELSE <<>>)
        \o NatToStr(Abs(amount) \div 1000) \o <<".">>
        \o DropTrailingZeros(ZeroPad(NatToStr(Abs(amount) % 1000), 3))

\* hashlib.md5(s.encode()).hexdigest()[:8], collisions aside: a tag that
\* determines s
Md5Hex8(s) == <<"md5">> \o s

\* the hash taken over date and payee only
generate_import_id_hash_without_amount(date, payee, amount, archive_id) ==
    IF Truthy(archive_id)
    THEN <<"O", "P", ":">> \o archive_id[1]
    ELSE LET unique_str == date \o <<":">> \o payee
         IN  <<"Y", "N", "A", "B", ":">> \o IntToStr(IntTimes1000(amount))
                 \o <<":">> \o date \o <<":">> \o Md5Hex8(unique_str)

generate_import_id(date, payee, amount, archive_id) ==
    IF Truthy(archive_id)
    THEN <<"O", "P", ":">> \o archive_id[1]
    ELSE LET unique_str == date \o <<":">> \o payee \o <<":">> \o FloatRepr(amount)
         IN  <<"Y", "N", "A", "B", ":">> \o IntToStr(IntTimes1000(amount))
                 \o <<":">> \o date \o <<":">> \o Md5Hex8(unique_str)

(***************************************************************************)
(* OPBankParser._parse_row and OPBankParser.parse                          *)
(*                                                                         *)
(* The input is the text as csv.reader splits it, after the header has     *)
(* been normalised: `fieldnames` is the sequence of canonical column names *)
(* and `lines` the data lines, each a sequence of cell texts.              *)
(***************************************************************************)
\* the dict csv.DictReader makes of a line: a line shorter than the header
\* leaves its missing cells None (restval); cells beyond the header are
\* collected under the key None, which nothing reads
DictRow(fieldnames, line) ==
    [key \in {fieldnames[i] : i \in 1..Len(fieldnames)} |->
        LET i == CHOOSE j \in 1..Len(fieldnames) : fieldnames[j] = key
        IN  IF i <= Len(line) THEN Some(line[i]) ELSE None]

\* row.get(key, default)
Get(row, key, default) == IF key \in DOMAIN row THEN row[key] ELSE default

\* " | ".join(parts)
RECURSIVE Join(_)
Join(parts) ==
    IF parts = <<>> THEN <<>>
    ELSE IF Len(parts) = 1 THEN parts[1]
    ELSE parts[1] \o <<" ", "|", " ">> \o Join(Tail(parts))

\* an outcome of _parse_row: it raised, it returned None, or it returned a
\* Transaction
RowRaised == [raised |-> TRUE, txn |-> None]
RowSkipped == [raised |-> FALSE, txn |-> None]
RowParsed(t) == [raised |-> FALSE, txn |-> Some(t)]

parse_row(row, pads_year) ==
    LET booking    == Get(row, "booking_date", None)
        date_str   == IF Truthy(booking) THEN booking
                      ELSE Get(row, "value_date", Some(<<>>))
        date       == parse_finnish_date(date_str[1], pads_year)
        amount_str == Get(row, "amount", Some(<<"0">>))
        amount     == parse_finnish_amount(amount_str)
        payee_cell == Get(row, "payee", Some(<<>>))
        expl_cell  == Get(row, "explanation",
                          Some(<<"U", "n", "k", "n", "o", "w", "n">>))
        payee      == IF Strip(payee_cell[1]) # <<>> THEN Strip(payee_cell[1])
                      ELSE Strip(expl_cell[1])
        explanation == Get(row, "explanation", None)
        message    == Get(row, "message", None)
        memo_parts == (IF Truthy(explanation) THEN <<Strip(explanation[1])>> ELSE <<>>)
                      \o (IF Truthy(message) THEN <<Strip(message[1])>> ELSE <<>>)
        joined     == Join(SelectSeq(memo_parts, LAMBDA x : x # <<>>))
        memo       == IF joined = <<>> THEN None ELSE Some(joined)
        archive_id == Get(row, "archive_id", None)
    IN  IF ~Truthy(date_str) THEN RowSkipped
        ELSE IF ~Truthy(date) THEN RowSkipped
        \* None.strip() raises AttributeError
        ELSE IF payee_cell = None THEN RowRaised
        ELSE IF Strip(payee_cell[1]) = <<>> /\ expl_cell = None THEN RowRaised
        ELSE RowParsed([date            |-> date[1],
                        payee           |-> payee,
                        amount          |-> amount,
                        memo            |-> memo,
                        import_id       |-> generate_import_id(date[1], payee, amount,
                                                               archive_id),
                        original_date   |-> date_str[1],
                        original_amount |-> amount_str,
                        reference       |-> Get(row, "reference", None),
                        archive_id      |-> archive_id])

\* iterating the csv reader raises csv.Error ("new-line character seen in
\* unquoted field") on a line that has a carriage return inside a field
ReaderRaises(line) == \E i \in 1..Len(line) : "cr" \in Chars(line[i])

\* the transactions of lines[1..n], in order: a row whose _parse_row raised
\* is caught by the `except Exception` of the loop and skipped
RECURSIVE ParsedRows(_, _, _, _)
ParsedRows(fieldnames, lines, n, pads_year) ==
    IF n = 0 THEN <<>>
    ELSE LET r == parse_row(DictRow(fieldnames, lines[n]), pads_year)
         IN  ParsedRows(fieldnames, lines, n - 1, pads_year)
                 \o (IF r.raised THEN <<>> ELSE r.txn)

\* parse: the reader is iterated outside the try block, so its csv.Error
\* leaves parse and the transactions collected so far are lost
parse(csv_content, pads_year) ==
    IF \E k \in 1..Len(csv_content.lines) : ReaderRaises(csv_content.lines[k])
    THEN [raised |-> TRUE, transactions |-> <<>>]
    ELSE [raised |-> FALSE,
          transactions |-> ParsedRows(csv_content.fieldnames, csv_content.lines,
                                      Len(csv_content.lines), pads_year)]

(***************************************************************************)
(* Transaction.to_dict                                                     *)
(***************************************************************************)
to_dict(txn) ==
    [date              |-> txn.date,
     payee             |-> txn.payee,
     amount            |-> txn.amount,
     amount_milliunits |-> IntTimes1000(txn.amount),
     memo              |-> txn.memo,
     import_id         |-> txn.import_id,
     original_date     |-> txn.original_date,
     original_amount   |-> txn.original_amount,
     reference         |-> txn.reference,
     archive_id        |-> txn.archive_id]

(***************************************************************************)
(* RulesEngine._rule_matches                                               *)
(***************************************************************************)
\* re.compile(pattern) raises re.error: the patterns of the model are
\* literal text, or contain an unbalanced "("
ReError(pattern) == "(" \in Chars(pattern)

\* a repeat count of 4294967295 or more makes re.search raise OverflowError,
\* which is not an re.error
ReOverflow(pattern) ==
    Contains(pattern, <<"{", "4", "2", "9", "4", "9", "6", "7", "2", "9", "5", "}">>)

\* re.search(pattern, text, re.IGNORECASE) for a literal pattern
ReSearch(pattern, text) == Contains(Upper(text), Upper(pattern))

\* the pairs of amounts one cent apart whose float difference comes out
\* above 0.01, e.g. 0.07 - 0.06 = 0.010000000000000002
OneCentApartAbove == {<<70, 60>>, <<60, 70>>}

\* abs(a - e) > 0.01 in float arithmetic
FloatDiffAboveTolerance(a, e) ==
    \/ Abs(a - e) > 10
    \/ Abs(a - e) = 10 /\ <<a, e>> \in OneCentApartAbove

\* the eight conditions of _rule_matches: each holds when the rule leaves
\* the predicate null
payee_exact_ok(rule, txn) ==
    rule.payee_exact # None =>
        Upper(txn.payee) = Upper(rule.payee_exact[1])

payee_contains_ok(rule, txn) ==
    rule.payee_contains # None =>
        Contains(Upper(txn.payee), Upper(rule.payee_contains[1]))

\* an invalid pattern raises re.error, which is swallowed: the condition
\* is skipped
payee_regex_ok(rule, txn) ==
    rule.payee_regex # None =>
        (ReError(rule.payee_regex[1]) \/ ReSearch(rule.payee_regex[1], txn.payee))

\* the memo branch with its `elif` reduced to `elif not txn.memo`: a
\* transaction without memo fails every rule
memo_contains_ok_needs_memo(rule, txn) ==
    /\ Truthy(txn.memo)
    /\ rule.memo_contains # None =>
           Contains(Upper(txn.memo[1]), Upper(rule.memo_contains[1]))

\* a rule that names a memo predicate fails a transaction without memo
memo_contains_ok(rule, txn) ==
    rule.memo_contains # None =>
        (/\ Truthy(txn.memo)
         /\ Contains(Upper(txn.memo[1]), Upper(rule.memo_contains[1])))

\* the memo_regex branch without its `elif`: a transaction without memo
\* passes
memo_regex_ok_skips_without_memo(rule, txn) ==
    (rule.memo_regex # None /\ Truthy(txn.memo)) =>
        (ReError(rule.memo_regex[1]) \/ ReSearch(rule.memo_regex[1], txn.memo[1]))

memo_regex_ok(rule, txn) ==
    rule.memo_regex # None =>
        (/\ Truthy(txn.memo)
         /\ (ReError(rule.memo_regex[1]) \/ ReSearch(rule.memo_regex[1], txn.memo[1])))

amount_exact_ok(rule, txn) ==
    rule.amount_exact # None =>
        ~FloatDiffAboveTolerance(txn.amount, rule.amount_exact[1])

amount_min_ok(rule, txn) ==
    rule.amount_min # None => ~(txn.amount < rule.amount_min[1])

amount_max_ok(rule, txn) ==
    rule.amount_max # None => ~(txn.amount > rule.amount_max[1])

rule_matches(rule, txn) ==
    /\ payee_exact_ok(rule, txn)
    /\ payee_contains_ok(rule, txn)
    /\ payee_regex_ok(rule, txn)
    /\ memo_contains_ok(rule, txn)
    /\ memo_regex_ok(rule, txn)
    /\ amount_exact_ok(rule, txn)
    /\ amount_min_ok(rule, txn)
    /\ amount_max_ok(rule, txn)

\* _rule_matches raises: re.search is reached with a pattern whose compiling
\* raises another exception than re.error
rule_matches_raises(rule, txn) ==
    /\ payee_exact_ok(rule, txn)
    /\ payee_contains_ok(rule, txn)
    /\ \/ rule.payee_regex # None /\ ReOverflow(rule.payee_regex[1])
       \/ /\ payee_regex_ok(rule, txn)
          /\ memo_contains_ok(rule, txn)
          /\ rule.memo_regex # None
          /\ Truthy(txn.memo)
          /\ ReOverflow(rule.memo_regex[1])

(***************************************************************************)
(* RulesEngine._find_matching_rule and categorize_transactions             *)
(***************************************************************************)
\* Optional[Rule]: the first rule of the list that matches
\* the loop without its early return: the last matching rule of the list
\* is kept
find_matching_rule_last(txn, rule_list) ==
    LET hits == {i \in 1..Len(rule_list) : rule_matches(rule_list[i], txn)}
    IN  IF hits = {} THEN None ELSE Some(rule_list[Max(hits)])

find_matching_rule(txn, rule_list) ==
    LET hits == {i \in 1..Len(rule_list) : rule_matches(rule_list[i], txn)}
    IN  IF hits = {} THEN None ELSE Some(rule_list[Min(hits)])

categorized(txn, rule_list) ==
    LET matched_rule == find_matching_rule(txn, rule_list)
    IN  IF matched_rule # None
        THEN to_dict(txn) @@
             [category_id       |-> Some(matched_rule[1].category_id),
              category_name     |-> Some(matched_rule[1].category_name),
              matched_rule_id   |-> Some(matched_rule[1].id),
              matched_rule_name |-> Some(matched_rule[1].name),
              auto_categorized  |-> TRUE]
        ELSE to_dict(txn) @@
             [category_id       |-> None,
              category_name     |-> None,
              matched_rule_id   |-> None,
              matched_rule_name |-> None,
              auto_categorized  |-> FALSE]

\* categorize_transactions appending a record only when a rule matched
categorize_matched_only(transactions, rule_list) ==
    SelectSeq([i \in 1..Len(transactions) |-> categorized(transactions[i], rule_list)],
              LAMBDA out : out.auto_categorized)

\* the list categorize_transactions returns, given the list get_rules gave
categorize(transactions, rule_list) ==
    [i \in 1..Len(transactions) |-> categorized(transactions[i], rule_list)]

(***************************************************************************)
(* RulesEngine.get_rules                                                   *)
(***************************************************************************)
\* the results the query
\*     select(Rule).where(Rule.is_active == True).order_by(Rule.priority.desc())
\* can give on `table`: the active rows, highest priority first.  The query
\* names no second sort key, so the database may return rows of equal
\* priority in any order.
ListActive(table) ==
    LET active == {i \in 1..Len(table) : table[i].is_active}
        n      == Cardinality(active)
    IN  {[k \in 1..n |-> table[order[k]]] :
            order \in {o \in [1..n -> active] :
                          /\ \A j, k \in 1..n : j # k => o[j] # o[k]
                          /\ \A j, k \in 1..n :
                                 j < k => table[o[j]].priority >= table[o[k]].priority}}

\* the values get_rules may leave in _rules_cache (and return, unwrapped):
\* the cached list if there is one, else a fresh query result
get_rules(cache, table) ==
    IF cache = None THEN {Some(l) : l \in ListActive(table)} ELSE {cache}

(***************************************************************************)
(* Inputs                                                                  *)
(***************************************************************************)
MaxRules == 2       \* rows the rules table may hold
MaxLines == 2       \* data lines of an uploaded file

NoPredicates ==
    [payee_exact |-> None, payee_contains |-> None, payee_regex |-> None,
     memo_contains |-> None, memo_regex |-> None,
     amount_exact |-> None, amount_min |-> None, amount_max |-> None]

\* a posted rule form with the predicates `preds` filled in
Form(name, priority, category_id, category_name, preds) ==
    preds @@ NoPredicates @@
    [name |-> name, priority |-> priority,
     category_id |-> category_id, category_name |-> category_name]

\* what the rule form may post.  A text field left blank arrives as "", so
\* the third form makes a rule with no predicate at all.
RuleForms ==
    { Form(<<"R", "1">>, 5, <<"c", "1">>, <<"F", "o", "o", "d">>,
           [payee_contains |-> Some(<<"k">>)]),
      Form(<<"R", "2">>, 10, <<"c", "2">>, <<"F", "u", "e", "l">>,
           [payee_exact |-> Some(<<"K", "M">>)]),
      Form(<<"R", "3">>, 10, <<"c", "3">>, <<"R", "e", "n", "t">>,
           [payee_exact |-> Some(<<>>)]) }

\* the ids delete_rule and update_rule are called with: every id the table
\* can hold and one it never holds
RuleIds == 1..(MaxRules + 1)

\* the files uploaded: the header Kirjauspäivä;Määrä;Saaja/Maksaja;Selitys
\* and up to MaxLines of these lines
UploadFieldnames == <<"booking_date", "amount", "payee", "explanation">>

UploadLines ==
    { <<<<"1", "5", ".", "0", "3", ".", "2", "0", "2", "4">>, <<"-", "4", "5", ",", "6", "7">>,
        <<"K", "m">>, <<>>>>,
      <<<<"1", "6", ".", "0", "3", ".", "2", "0", "2", "4">>, <<"0", ",", "0", "7">>,
        <<"Z", "e", "d">>, <<"e", " ", "x">>>> }

CsvContents(fieldnames, lines) ==
    {[fieldnames |-> fieldnames, lines |-> l] :
        l \in UNION {[1..n -> lines] : n \in 1..MaxLines}}

Uploads == CsvContents(UploadFieldnames, UploadLines)

\* the builds the program runs on: whether the C library's strftime
\* zero-fills the year
Builds == BOOLEAN

\* parse of every upload on every build, worked out once
ParsedUploads == [c \in Uploads |-> [b \in Builds |-> parse(c, b)]]

\* the batches categorize_transactions is called with: what parse makes of
\* an upload
Batches == {parse(c, TRUE).transactions : c \in Uploads}

(***************************************************************************)
(* The rules table and the handlers of app/routers/rules.py                *)
(***************************************************************************)
\* Rule(...) as create_rule builds it, with the id the table assigns and
\* the column default is_active = True.  created_at and updated_at are
\* left out: nothing reads them.
NewRule(id, form) ==
    [id             |-> id,
     name           |-> form.name,
     priority       |-> form.priority,
     payee_exact    |-> OrNone(form.payee_exact),
     payee_contains |-> OrNone(form.payee_contains),
     payee_regex    |-> OrNone(form.payee_regex),
     memo_contains  |-> OrNone(form.memo_contains),
     memo_regex     |-> OrNone(form.memo_regex),
     amount_exact   |-> form.amount_exact,
     amount_min     |-> form.amount_min,
     amount_max     |-> form.amount_max,
     category_id    |-> form.category_id,
     category_name  |-> form.category_name,
     is_active      |-> TRUE]

\* the row after update_rule has assigned the form's fields: id and
\* is_active are not assigned
UpdatedRule(rule, form) ==
    [NewRule(rule.id, form) EXCEPT !.is_active = rule.is_active]

\* the row after delete_rule
SoftDeleted(rule) == [rule EXCEPT !.is_active = FALSE]

\* the rows select(Rule).where(Rule.id == rule_id) finds
RuleExists(table, rule_id) == rule_id \in 1..Len(table)

create_rule(form) ==
    /\ rules' = Append(rules, NewRule(Len(rules) + 1, form))
    /\ ret' = [op |-> "create_rule", rule_id |-> Len(rules) + 1]
    /\ UNCHANGED rules_cache

\* delete_rule with `await db.delete(rule)` in place of the flag
delete_rule_hard(rule_id) ==
    /\ rules' = SelectSeq(rules, LAMBDA rule : rule.id # rule_id)
    /\ ret' = [op |-> "delete_rule", rule_id |-> rule_id]
    /\ UNCHANGED rules_cache

delete_rule(rule_id) ==
    /\ rules' = IF RuleExists(rules, rule_id)
                THEN [rules EXCEPT ![rule_id] = SoftDeleted(rules[rule_id])]
                ELSE rules
    /\ ret' = [op |-> "delete_rule", rule_id |-> rule_id]
    /\ UNCHANGED rules_cache

update_rule(rule_id, form) ==
    /\ rules' = IF RuleExists(rules, rule_id)
                THEN [rules EXCEPT ![rule_id] = UpdatedRule(rules[rule_id], form)]
                ELSE rules
    /\ ret' = [op |-> "update_rule", rule_id |-> rule_id]
    /\ UNCHANGED rules_cache

(***************************************************************************)
(* A RulesEngine instance and the upload handler                           *)
(***************************************************************************)
\* RulesEngine.__init__: the cache of a new engine
RulesEngineInit == None

\* a caller makes a new engine and holds on to it
RulesEngine ==
    /\ rules_cache' = RulesEngineInit
    /\ ret' = [op |-> "RulesEngine"]
    /\ UNCHANGED rules

\* engine.get_rules() on the engine held
get_rules_call ==
    /\ rules_cache' \in get_rules(rules_cache, rules)
    /\ ret' = [op |-> "get_rules", rule_list |-> rules_cache'[1]]
    /\ UNCHANGED rules

\* engine.categorize_transactions(transactions) on the engine held
categorize_transactions(transactions) ==
    /\ rules_cache' \in get_rules(rules_cache, rules)
    /\ ret' = [op           |-> "categorize_transactions",
               transactions |-> transactions,
               result       |-> categorize(transactions, rules_cache'[1])]
    /\ UNCHANGED rules

\* upload_csv categorizing with the engine held, a module-level engine
\* shared by the requests
UploadEngineShared == rules_cache

\* the cache of the engine upload_csv categorizes with: the handler makes
\* its own engine, rules_engine = RulesEngine(db), on every request
UploadEngineCache == RulesEngineInit

\* upload_csv: parse the text, categorize with a new engine, count.  The
\* engine is local to the request and is dropped when the handler returns.
upload_csv(csv_content) ==
    /\ \E pads_year \in Builds :
       \E cache \in get_rules(UploadEngineCache, rules) :
          LET parsed == ParsedUploads[csv_content][pads_year]
              result == categorize(parsed.transactions, cache[1])
              auto   == Cardinality({i \in 1..Len(result) :
                                        Truthy(result[i].category_id)})
          IN  ret' = IF parsed.raised
                     THEN [op |-> "upload_csv", csv_content |-> csv_content,
                           raised |-> TRUE]
                     ELSE [op |-> "upload_csv", csv_content |-> csv_content,
                           raised |-> FALSE,
                           transactions |-> result,
                           total |-> Len(result),
                           auto_categorized |-> auto,
                           needs_review |-> Len(result) - auto]
    /\ UNCHANGED <<rules, rules_cache>>

(***************************************************************************)
(* The specification of the repository and the engine                      *)
(***************************************************************************)
Init ==
    /\ rules = <<>>
    /\ rules_cache = RulesEngineInit
    /\ ret = [op |-> "start"]

Next ==
    \/ \E form \in RuleForms : Len(rules) < MaxRules /\ create_rule(form)
    \/ \E rule_id \in RuleIds : \E form \in RuleForms : update_rule(rule_id, form)
    \/ \E rule_id \in RuleIds : delete_rule(rule_id)
    \/ RulesEngine
    \/ get_rules_call
    \/ \E transactions \in Batches : categorize_transactions(transactions)
    \/ \E csv_content \in Uploads : upload_csv(csv_content)

Spec == Init /\ [][Next]_vars

(***************************************************************************)
(* PatternAnalyzer (app/rules/analyzer.py)                                 *)
(*                                                                         *)
(* A transaction of the history is the dict get_transactions makes:        *)
(* payee_name, category_id and category_name are Optional strings, amount  *)
(* is in thousandths.  The threshold is in tenths of a percent (900 for    *)
(* 90.0).  A confidence is the fraction count * 100 / total in lowest      *)
(* terms, [num, den].                                                      *)
(***************************************************************************)
\* s.startswith(prefix)
StartsWith(s, prefix) ==
    Len(s) >= Len(prefix) /\ SubSeq(s, 1, Len(prefix)) = prefix

\* the elements of a sequence in the order of their first occurrence: the
\* order of the keys of a dict filled in that order
RECURSIVE DistinctInOrder(_)
DistinctInOrder(s) ==
    IF s = <<>> THEN <<>>
    ELSE LET front == DistinctInOrder(SubSeq(s, 1, Len(s) - 1))
             x     == s[Len(s)]
         IN  IF \E i \in 1..Len(front) : front[i] = x THEN front
             ELSE Append(front, x)

RECURSIVE Gcd(_, _)
Gcd(a, b) == IF b = 0 THEN a ELSE Gcd(b, a % b)

\* a reading in which an amount of zero is outgoing
get_direction_zero_outgoing(amount) == IF amount > 0 THEN "incoming" ELSE "outgoing"

get_direction(amount) == IF amount >= 0 THEN "incoming" ELSE "outgoing"

\* (txn.get("payee_name") or "").strip()
PayeeOf(txn) ==
    Strip(IF Truthy(txn.payee_name) THEN txn.payee_name[1] ELSE <<>>)

TransferPrefix == <<"T", "r", "a", "n", "s", "f", "e", "r", " ", ":">>

\* the transactions the first loop of analyze puts in a group
Grouped(txn) ==
    PayeeOf(txn) # <<>> /\ ~StartsWith(PayeeOf(txn), TransferPrefix)

GroupKey(txn) == <<PayeeOf(txn), get_direction(txn.amount)>>

\* the keys of `grouped`, in the order the dict holds them
GroupKeys(transactions) ==
    LET kept == SelectSeq(transactions, Grouped)
    IN  DistinctInOrder([i \in 1..Len(kept) |-> GroupKey(kept[i])])

\* a reading in which the transactions without category are left out of
\* the group
GroupOf_categorized_only(transactions, key) ==
    SelectSeq(transactions, LAMBDA txn : /\ Grouped(txn) /\ GroupKey(txn) = key
                                         /\ Truthy(txn.category_id))

\* grouped[key]
GroupOf(transactions, key) ==
    SelectSeq(transactions, LAMBDA txn : Grouped(txn) /\ GroupKey(txn) = key)

Uncategorized == <<"__uncategorized__">>

\* the key a transaction is counted under in category_counts
CategoryKey(txn) ==
    IF Truthy(txn.category_id) THEN txn.category_id[1] ELSE Uncategorized

\* the keys of category_counts, in the order the dict holds them
CategoryKeys(txns) ==
    DistinctInOrder([i \in 1..Len(txns) |-> CategoryKey(txns[i])])

\* category_counts[cat_id]["transactions"]
CategoryTransactions(txns, cat_id) ==
    SelectSeq(txns, LAMBDA txn : CategoryKey(txn) = cat_id)

\* category_counts[cat_id]["name"]: the name the last transaction of the
\* category carries, or Uncategorized
CategoryName(txns, cat_id) ==
    LET of   == CategoryTransactions(txns, cat_id)
        last == of[Len(of)]
    IN  IF Truthy(last.category_name) THEN last.category_name[1]
        ELSE <<"U", "n", "c", "a", "t", "e", "g", "o", "r", "i", "z", "e", "d">>

\* (count / total_count) * 100
Confidence(count, total) ==
    LET g == Gcd(count * 100, total)
    IN  [num |-> (count * 100) \div g, den |-> total \div g]

\* the (count, total) of the model for which the float (count / total) * 100
\* comes out just below the fraction: (29 / 50) * 100 = 57.99999999999999
ConfidenceFallsShort == {<<29, 50>>}

\* confidence >= self.threshold, in float arithmetic
MeetsThreshold(count, total, threshold) ==
    IF <<count, total>> \in ConfidenceFallsShort
    THEN count * 1000 > threshold * total
    ELSE count * 1000 >= threshold * total

\* the suggestions the inner loop appends for the group `key`
GroupSuggestions(transactions, key, threshold, min_transactions) ==
    LET txns == GroupOf(transactions, key)
        cats == SelectSeq(CategoryKeys(txns),
                          LAMBDA cat_id :
                              /\ cat_id # Uncategorized
                              /\ MeetsThreshold(Len(CategoryTransactions(txns, cat_id)),
                                                Len(txns), threshold))
    IN  IF Len(txns) < min_transactions THEN <<>>
        ELSE [k \in 1..Len(cats) |->
                 LET of == CategoryTransactions(txns, cats[k])
                 IN  [payee_name          |-> key[1],
                      category_id         |-> cats[k],
                      category_name       |-> CategoryName(txns, cats[k]),
                      direction           |-> key[2],
                      confidence          |-> Confidence(Len(of), Len(txns)),
                      transaction_count   |-> Len(of),
                      total_for_payee     |-> Len(txns),
                      sample_transactions |-> SubSeq(of, 1, Min({5, Len(of)}))]]

\* the list `suggestions` before it is sorted: the groups in dict order
RECURSIVE Suggestions(_, _, _, _)
Suggestions(transactions, keys, threshold, min_transactions) ==
    IF keys = <<>> THEN <<>>
    ELSE GroupSuggestions(transactions, Head(keys), threshold, min_transactions)
             \o Suggestions(transactions, Tail(keys), threshold, min_transactions)

\* a sort key of the confidence alone
SortsBefore_confidence_only(a, b) ==
    a.confidence.num * b.confidence.den > b.confidence.num * a.confidence.den

\* the sort key (-confidence, -transaction_count) of a is less than that of b
SortsBefore(a, b) ==
    \/ a.confidence.num * b.confidence.den > b.confidence.num * a.confidence.den
    \/ /\ a.confidence = b.confidence
       /\ a.transaction_count > b.transaction_count

\* list.sort: stable, an element goes before the first one it sorts before
RECURSIVE StableSort(_)
StableSort(s) ==
    IF s = <<>> THEN <<>>
    ELSE LET front == StableSort(SubSeq(s, 1, Len(s) - 1))
             x     == s[Len(s)]
             later == {k \in 1..Len(front) : SortsBefore(x, front[k])}
             at    == IF later = {} THEN Len(front) + 1 ELSE Min(later)
         IN  SubSeq(front, 1, at - 1) \o <<x>> \o SubSeq(front, at, Len(front))

analyze(transactions, threshold, min_transactions) ==
    StableSort(Suggestions(transactions, GroupKeys(transactions),
                           threshold, min_transactions))

(***************************************************************************)
(* The specification of the parser on its own                              *)
(***************************************************************************)
\* the day, month and year numbers the date cells are written from: the
\* ends of the months, leap and common years, a year of three digits, and
\* numbers no calendar has
Days == {0, 1, 28, 29, 30, 31, 32}
Months == {0, 1, 2, 4, 12, 13}
Years == {0, 999, 1900, 2000, 2023, 2024}

\* a date cell as the bank writes it, DD.MM.YYYY
DateText(d, m, y) ==
    ZeroPad(NatToStr(d), 2) \o <<".">> \o ZeroPad(NatToStr(m), 2) \o <<".">>
        \o ZeroPad(NatToStr(y), 4)

DateTexts == {DateText(d, m, y) : d \in Days, m \in Months, y \in Years}

\* date cells of other shapes
OtherDateTexts ==
    { <<>>,
      <<"1", ".", "3", ".", "2", "0", "2", "4">>,
      <<"2", "0", "2", "4", "-", "0", "3", "-", "1", "5">>,
      <<"1", "5", "/", "0", "3", "/", "2", "0", "2", "4">>,
      <<" ", "1", "5", ".", "0", "3", ".", "2", "0", "2", "4", "x">>,
      <<"2", "0", "2", "4", "-", "0", "2", "-", "3", "1">>,
      <<"2", "0", "2", "4", "-", "0", "3", "-", "1", "5", "T">> }

\* a line with the date cell `date` and nothing else unusual
DateLine(date) == <<date, <<"1", ",", "0", "0">>, <<"K", "m">>, <<>>>>

\* lines with something wrong in them, and one with nothing wrong: a short
\* line, an amount that is no number, a blank payee, a date that is no
\* date, a carriage return inside a cell, a blank payee with a blank
\* explanation
RowLines ==
    { DateLine(DateText(15, 3, 2024)),
      <<DateText(16, 3, 2024)>>,
      <<DateText(17, 3, 2024), <<"a", "b", "c">>, <<"Z", "e", "d">>, <<"e", " ", "x">>>>,
      <<DateText(18, 3, 2024), <<"-", "2", ",", "5", "0">>, <<" ">>, <<"e", " ", "x">>>>,
      DateLine(DateText(31, 2, 2024)),
      <<DateText(19, 3, 2024), <<"1", ",", "0", "0">>, <<"K", "cr", "m">>, <<>>>>,
      <<DateText(20, 3, 2024), <<"8", ",", "1", "9">>, <<" ">>, <<>>>> }

\* the file of a header without payee column, Kirjauspäivä;Määrä;Selitys,
\* and the line 15.03.2024;-45,67;K-MARKET
ExplanationOnlyInput ==
    [fieldnames |-> <<"booking_date", "amount", "explanation">>,
     lines |-> <<<<DateText(15, 3, 2024), <<"-", "4", "5", ",", "6", "7">>,
                   <<"K", "-", "M", "A", "R", "K", "E", "T">>>>>>]

\* files with the column Arkistointitunnus: lines with an archive id, with
\* a blank one and with the same one again
ArchiveFieldnames == <<"booking_date", "amount", "payee", "explanation", "archive_id">>

ArchiveLines ==
    { <<DateText(15, 3, 2024), <<"8", ",", "1", "9">>, <<"K", "m">>, <<>>, <<"A", "1">>>>,
      <<DateText(16, 3, 2024), <<"1", ",", "0", "0">>, <<"Z", "e", "d">>, <<>>, <<"A", "1">>>>,
      <<DateText(15, 3, 2024), <<"8", ",", "1", "9">>, <<"K", "m">>, <<>>, <<>>>> }

\* amount cells: the bank's way of writing, with spaces and points between
\* the thousands, a point with no comma, and cells that are no number
AmountTexts ==
    { <<"1", ".", "2", "3", "4", ",", "5", "6">>,
      <<"4", "5", ",", "0", "0">>,
      <<"-", "1", "2", ",", "5", "0">>,
      <<"1", "nbsp", "2", "3", "4", ",", "5", "6">>,
      <<"1", " ", "2", ",", "5">>,
      <<" ", "7", " ">>,
      <<"1", ".", "5">>,
      <<"1", ".", "2", "3", "4">>,
      <<"1", ".", "2", ".", "3", ",", "4">>,
      <<"1", ",", "2", "3", "4", ",", "5", "6">>,
      <<"a", "b", "c">>, <<"-">>, <<",">>, <<>> }

\* the texts parse is called with: one line for every date cell, and up to
\* MaxLines of the lines above
ParserInputs ==
    {[fieldnames |-> UploadFieldnames, lines |-> <<DateLine(date)>>] :
        date \in DateTexts \cup OtherDateTexts}
    \cup {[fieldnames |-> UploadFieldnames,
            lines |-> <<<<DateText(15, 3, 2024), amount, <<"K", "m">>, <<>>>>>>] :
            amount \in AmountTexts}
    \cup CsvContents(UploadFieldnames, RowLines)
    \cup CsvContents(ArchiveFieldnames, ArchiveLines)
    \cup {ExplanationOnlyInput}

\* parse of every such text on every build, worked out once
ParsedInputs == [c \in ParserInputs |-> [b \in Builds |-> parse(c, b)]]

\* parser.parse(text) called on its own
parse_call(csv_content) ==
    /\ \E pads_year \in Builds :
          ret' = [op |-> "parse", csv_content |-> csv_content,
                  pads_year |-> pads_year,
                  result |-> ParsedInputs[csv_content][pads_year]]
    /\ UNCHANGED <<rules, rules_cache>>

ParserNext == \E csv_content \in ParserInputs : parse_call(csv_content)

ParserSpec == Init /\ [][ParserNext]_vars

(***************************************************************************)
(* The specification of the import id generator on its own                 *)
(***************************************************************************)
\* the arguments _generate_import_id is called with: ISO dates, payees,
\* amounts (8.19 and 8.189 have the same int(amount * 1000)) and archive
\* ids: none, a blank one and two that differ
IdDates == {Strftime(2024, 3, d, TRUE) : d \in {15, 16, 17}}
IdPayees == {<<"K", "m">>, <<"Z", "e", "d">>, <<>>}
IdAmounts == {-45670, 0, 8189, 8190}
IdArchiveIds == {None, Some(<<>>), Some(<<"A", "1">>), Some(<<"A", "2">>)}

generate_import_id_call(date, payee, amount, archive_id) ==
    /\ ret' = [op |-> "generate_import_id", date |-> date, payee |-> payee,
               amount |-> amount, archive_id |-> archive_id,
               result |-> generate_import_id(date, payee, amount, archive_id)]
    /\ UNCHANGED <<rules, rules_cache>>

ImportIdNext ==
    \E date \in IdDates, payee \in IdPayees, amount \in IdAmounts,
       archive_id \in IdArchiveIds :
        generate_import_id_call(date, payee, amount, archive_id)

ImportIdSpec == Init /\ [][ImportIdNext]_vars

(***************************************************************************)
(* The specification of the pattern analyzer on its own: an analyzer is    *)
(* constructed with a threshold and a minimum, and analyze is called with  *)
(* a history of transactions                                               *)
(***************************************************************************)
MaxGroup == 10      \* transactions of a payee in the one-payee histories
MaxSide == 5        \* transactions of one direction in the two-way histories

Repeat(x, n) == [i \in 1..n |-> x]

Txn(payee, category, amount) ==
    [payee_name |-> Some(payee), category_id |-> category.id,
     category_name |-> category.name, amount |-> amount]

\* the categories the transactions of the histories carry: four real ones,
\* one of them without name, and none
Category ==
    [Groceries |-> [id |-> Some(<<"g">>), name |-> Some(<<"G", "r", "o", "c">>)],
     Dining    |-> [id |-> Some(<<"d">>), name |-> Some(<<"D", "i", "n", "e">>)],
     Refund    |-> [id |-> Some(<<"r">>), name |-> Some(<<"R", "e", "f">>)],
     Unnamed   |-> [id |-> Some(<<"x">>), name |-> Some(<<>>)],
     Absent    |-> [id |-> None, name |-> None]]

\* one payee, outgoing: a transactions of one category, b of another and u
\* without a category
OneGroupHistories ==
    {Repeat(Txn(<<"K", "m">>, Category.Groceries, -1000), a)
         \o Repeat(Txn(<<"K", "m">>, Category.Dining, -2000), b)
         \o Repeat(Txn(<<"K", "m">>, Category.Absent, -3000), u) :
        <<a, b, u>> \in {t \in (0..MaxGroup) \X (0..MaxGroup) \X (0..MaxGroup) :
                            t[1] + t[2] + t[3] <= MaxGroup}}

\* one payee, i transactions of amount 0 or more and o below 0
DirectionHistories ==
    {Repeat(Txn(<<"K", "m">>, Category.Refund, amount), i)
         \o Repeat(Txn(<<"K", "m">>, Category.Groceries, -1000), o) :
        <<amount, i, o>> \in {0, 1000} \X (0..MaxSide) \X (0..MaxSide)}

\* three payees whose suggestions differ in confidence and in count
PayeeHistories ==
    {Repeat(Txn(<<"Z", "e", "d">>, Category.Groceries, -1000), z[1])
         \o Repeat(Txn(<<"Z", "e", "d">>, Category.Dining, -1000), z[2])
         \o Repeat(Txn(<<"A", "b">>, Category.Groceries, -1000), a[1])
         \o Repeat(Txn(<<"A", "b">>, Category.Unnamed, -1000), a[2])
         \o Repeat(Txn(<<"K", "m">>, Category.Dining, 1000), k[1])
         \o Repeat(Txn(<<"K", "m">>, Category.Refund, 1000), k[2]) :
        <<z, a, k>> \in
            LET shares == {<<3, 1>>, <<6, 2>>, <<5, 0>>, <<1, 1>>}
            IN  shares \X shares \X shares}

\* transfers, payees that are absent, blank or padded, a category id that
\* is blank, and a payee with 29 transactions of one category among 50
OtherHistories ==
    {Repeat(Txn(TransferPrefix \o <<" ", "S">>, Category.Groceries, -1000), 3),
     Repeat([payee_name |-> None, category_id |-> Category.Groceries.id,
             category_name |-> Category.Groceries.name, amount |-> -1000], 3)
         \o Repeat(Txn(<<" ">>, Category.Groceries, -1000), 3),
     Repeat(Txn(<<" ", "K", "m">>, Category.Groceries, -1000), 2)
         \o Repeat(Txn(<<"K", "m", " ">>, Category.Groceries, -1000), 2),
     Repeat(Txn(<<"K", "m">>, Category.Groceries, -1000), 3)
         \o <<Txn(<<"K", "m">>, [id |-> Some(<<>>), name |-> Some(<<"N">>)], -1000)>>,
     Repeat(Txn(<<"K", "m">>, Category.Groceries, -1000), 29)
         \o Repeat(Txn(<<"K", "m">>, Category.Dining, -1000), 21)}

Histories ==
    OneGroupHistories \cup DirectionHistories \cup PayeeHistories
        \cup OtherHistories

AnalyzerInit ==
    /\ rules = <<>>
    /\ rules_cache = RulesEngineInit
    /\ ret \in [op : {"PatternAnalyzer"}, transactions : Histories,
                threshold : {500, 579, 580, 900, 901, 1000},
                min_transactions : {1, 3}]

analyze_call ==
    /\ ret.op = "PatternAnalyzer"
    /\ ret' = [op |-> "analyze", transactions |-> ret.transactions,
               threshold |-> ret.threshold,
               min_transactions |-> ret.min_transactions,
               result |-> analyze(ret.transactions, ret.threshold,
                                  ret.min_transactions)]
    /\ UNCHANGED <<rules, rules_cache>>

AnalyzerNext == analyze_call

AnalyzerSpec == AnalyzerInit /\ [][AnalyzerNext]_vars

(***************************************************************************)
(* YNABClient.create_transactions (app/ynab/client.py)                     *)
(*                                                                         *)
(* The client holds budget_id (a string, empty when not configured) and    *)
(* _accounts_cache (None or a list).  The service answers the accounts     *)
(* request with a list of accounts, or with an error status (None).  The   *)
(* outcome of a call is the requests made, in order, and the message of    *)
(* the YNABAPIError raised, if any.                                        *)
(***************************************************************************)
MemoLimit == 200

\* a reading in which closed and deleted accounts stay in the list
OpenAccounts_all(accounts) == accounts

\* the filter of get_accounts: accounts neither closed nor deleted
OpenAccounts(accounts) ==
    SelectSeq(accounts, LAMBDA acc : ~acc.closed /\ ~acc.deleted)

\* get_accounts: [raised, requests, result]
get_accounts(budget_id, accounts_cache, service_accounts) ==
    IF accounts_cache # None
    THEN [raised |-> None, requests |-> <<>>, result |-> accounts_cache[1]]
    ELSE IF budget_id = <<>>
    THEN [raised |-> None, requests |-> <<>>, result |-> <<>>]
    ELSE LET request == [method |-> "GET", budget_id |-> budget_id,
                         endpoint |-> "accounts"]
         IN  IF service_accounts = None
             THEN [raised |-> Some("status"), requests |-> <<request>>,
                   result |-> <<>>]
             ELSE [raised |-> None, requests |-> <<request>>,
                   result |-> OpenAccounts(service_accounts[1])]

\* the dict sent for one transaction
Formatted(txn, account_id) ==
    [account_id  |-> account_id,
     date        |-> txn.date,
     amount      |-> IF txn.amount_milliunits # None /\ txn.amount_milliunits[1] # 0
                     THEN txn.amount_milliunits[1]
                     ELSE IntTimes1000(txn.amount),
     payee_name  |-> txn.payee,
     memo        |-> IF Truthy(txn.memo)
                     THEN Some(SubSeq(txn.memo[1], 1,
                                      Min({MemoLimit, Len(txn.memo[1])})))
                     ELSE None,
     cleared     |-> "cleared",
     approved    |-> TRUE,
     category_id |-> IF Truthy(txn.category_id) THEN txn.category_id ELSE None,
     import_id   |-> IF Truthy(txn.import_id) THEN txn.import_id ELSE None]

\* the transactions request
Post(budget_id, transactions, account_id) ==
    [method |-> "POST", budget_id |-> budget_id, endpoint |-> "transactions",
     transactions |-> [i \in 1..Len(transactions) |->
                          Formatted(transactions[i], account_id)]]

create_transactions(budget_id, cache, service, transactions, account_id) ==
    IF budget_id = <<>>
    THEN [raised |-> Some("Budget ID not configured"), requests |-> <<>>]
    ELSE IF Truthy(account_id)
    THEN [raised |-> None,
          requests |-> <<Post(budget_id, transactions, account_id[1])>>]
    ELSE LET got == get_accounts(budget_id, cache, service)
         IN  IF got.raised # None
             THEN [raised |-> got.raised, requests |-> got.requests]
             ELSE IF got.result = <<>>
             THEN [raised |-> Some("No accounts found in budget"),
                   requests |-> got.requests]
             ELSE [raised |-> None,
                   requests |-> Append(got.requests,
                                       Post(budget_id, transactions,
                                            got.result[1].id))]

(***************************************************************************)
(* The specification of the client on its own: a client is constructed     *)
(* from the settings and create_transactions is called                     *)
(***************************************************************************)
Account(id, closed, deleted) == [id |-> id, closed |-> closed, deleted |-> deleted]

\* the answers of the service to the accounts request
ServiceAccounts ==
    {None, Some(<<>>),
     Some(<<Account(<<"a", "1">>, FALSE, FALSE), Account(<<"a", "2">>, FALSE, FALSE)>>),
     Some(<<Account(<<"a", "1">>, TRUE, FALSE), Account(<<"a", "2">>, FALSE, FALSE)>>),
     Some(<<Account(<<"a", "1">>, FALSE, TRUE), Account(<<"a", "2">>, FALSE, FALSE)>>),
     Some(<<Account(<<"a", "1">>, TRUE, FALSE), Account(<<"a", "2">>, FALSE, TRUE)>>)}

\* the lists of transactions handed to create_transactions
ImportLists ==
    {<<>>,
     <<[date |-> Strftime(2024, 3, 15, TRUE), amount |-> -45670,
        amount_milliunits |-> Some(-45670), payee |-> <<"K", "m">>,
        memo |-> Some(<<"K", "m">>), category_id |-> Some(<<"g">>),
        import_id |-> Some(<<"O", "P", ":", "A", "1">>)]>>,
     <<[date |-> Strftime(2024, 3, 15, TRUE), amount |-> 8190,
        amount_milliunits |-> None, payee |-> <<"Z", "e", "d">>,
        memo |-> None, category_id |-> None, import_id |-> None],
       [date |-> Strftime(2024, 3, 16, TRUE), amount |-> 0,
        amount_milliunits |-> Some(0), payee |-> <<>>,
        memo |-> Some(<<>>), category_id |-> Some(<<>>),
        import_id |-> Some(<<>>)]>>}

ClientInit ==
    /\ rules = <<>>
    /\ rules_cache = RulesEngineInit
    /\ ret \in [op : {"YNABClient"}, budget_id : {<<>>, <<"b">>},
                accounts_cache :
                    {None, Some(<<Account(<<"a", "3">>, FALSE, FALSE)>>)},
                service_accounts : ServiceAccounts,
                transactions : ImportLists,
                account_id : {None, Some(<<>>), Some(<<"a", "9">>)}]

create_transactions_call ==
    /\ ret.op = "YNABClient"
    /\ ret' = [op |-> "create_transactions", budget_id |-> ret.budget_id,
               accounts_cache |-> ret.accounts_cache,
               service_accounts |-> ret.service_accounts,
               transactions |-> ret.transactions,
               account_id |-> ret.account_id,
               result |-> create_transactions(ret.budget_id, ret.accounts_cache,
                                              ret.service_accounts,
                                              ret.transactions, ret.account_id)]
    /\ UNCHANGED <<rules, rules_cache>>

ClientNext == create_transactions_call

ClientSpec == ClientInit /\ [][ClientNext]_vars

(***************************************************************************)
(* The specification of the matcher on its own: _rule_matches is called    *)
(* with a rule and a transaction                                           *)
(***************************************************************************)
\* patterns: a valid one, one that raises re.error and one that raises
\* OverflowError
Patterns ==
    {<<"k">>, <<"(">>,
     <<"a", "{", "4", "2", "9", "4", "9", "6", "7", "2", "9", "5", "}">>}

MatcherRules ==
    [payee_exact : {None}, payee_contains : {None, Some(<<"z">>)},
     payee_regex : {None} \cup {Some(p) : p \in Patterns},
     memo_contains : {None, Some(<<"M">>)},
     memo_regex : {None} \cup {Some(p) : p \in Patterns},
     amount_exact : {None}, amount_min : {None, Some(0)}, amount_max : {None}]
    \cup
    [payee_exact : {None}, payee_contains : {None}, payee_regex : {None},
     memo_contains : {None}, memo_regex : {None},
     amount_exact : {None, Some(60), Some(1000)},
     amount_min : {None, Some(0), Some(70)},
     amount_max : {None, Some(60)}]

MatcherTransactions ==
    [payee : {<<"K", "m">>, <<"Z", "e", "d">>},
     memo : {None, Some(<<>>), Some(<<"K", "m">>), Some(<<"x">>)},
     amount : {-1000, 60, 70, 1000}]

MatcherInit ==
    /\ rules = <<>>
    /\ rules_cache = RulesEngineInit
    /\ ret \in [op : {"RulesEngine"}, rule : MatcherRules,
                txn : MatcherTransactions]

rule_matches_call ==
    /\ ret.op = "RulesEngine"
    /\ ret' = [op |-> "_rule_matches", rule |-> ret.rule, txn |-> ret.txn,
               raised |-> rule_matches_raises(ret.rule, ret.txn),
               result |-> IF rule_matches_raises(ret.rule, ret.txn) THEN None
                          ELSE Some(rule_matches(ret.rule, ret.txn))]
    /\ UNCHANGED <<rules, rules_cache>>

MatcherNext == rule_matches_call

MatcherSpec == MatcherInit /\ [][MatcherNext]_vars

(***************************************************************************)
(* RulesEngine.suggest_rule                                                *)
(*                                                                         *)
(* The draft is the dict returned, a key that is not set being None.       *)
(***************************************************************************)
PayeeExactLimit == 30

\* s.split(): the runs of characters that are not whitespace
RECURSIVE Split(_)
Split(s) ==
    IF s = <<>> THEN <<>>
    ELSE IF s[1] \in WhiteSpace THEN Split(Tail(s))
    ELSE LET stops == {i \in 1..Len(s) : s[i] \in WhiteSpace}
             end   == IF stops = {} THEN Len(s) ELSE Min(stops) - 1
         IN  <<SubSeq(s, 1, end)>> \o Split(SubSeq(s, end + 1, Len(s)))

\* a reading in which the first word is taken whatever its length
MainWord_first(words) == words[1]

\* main_word: the first word longer than 3 characters that is not OY, AB or
\* OYJ, else the first word
MainWord(words) ==
    LET meaningful == {i \in 1..Len(words) :
                          /\ Len(words[i]) > 3
                          /\ Upper(words[i]) \notin {<<"O", "Y">>, <<"A", "B">>,
                                                     <<"O", "Y", "J">>}}
    IN  IF meaningful = {} THEN words[1] ELSE words[Min(meaningful)]

suggest_rule(txn, category_id, category_name) ==
    LET exact == Len(txn.payee) <= PayeeExactLimit /\ " " \notin Chars(txn.payee)
        words == Split(txn.payee)
    IN  [name           |-> <<"R", "u", "l", "e", " ", "f", "o", "r", " ">>
                                \o SubSeq(txn.payee, 1,
                                          Min({PayeeExactLimit, Len(txn.payee)})),
         priority       |-> 10,
         category_id    |-> category_id,
         category_name  |-> category_name,
         payee_exact    |-> IF exact THEN Some(txn.payee) ELSE None,
         payee_contains |-> IF ~exact /\ words # <<>> THEN Some(MainWord(words))
                            ELSE None,
         amount_exact   |-> IF txn.amount % 1000 = 0 THEN Some(txn.amount)
                            ELSE None]

(***************************************************************************)
(* The specification of suggest_rule on its own: it is called with a       *)
(* transaction and the category chosen for it                              *)
(***************************************************************************)
\* the payees: short ones, a blank one as parse gives for a row with
\* neither payee nor explanation, ones of several words, and ones of 30
\* and of 31 characters
SuggestInit ==
    /\ rules = <<>>
    /\ rules_cache = RulesEngineInit
    /\ ret \in [op : {"RulesEngine"},
                txn : [payee :
                          {<<"K", "m">>, <<>>, <<" ">>, <<"K", " ", "M">>,
                          <<"O", "y", " ", "K", "e", "s", "k", "o", " ",
                            "M", "a", "r", "k", "e", "t">>,
                          <<"A", "B", " ", "Z", "e", "d", " ", "O", "y", "j">>,
                          <<"K", "nbsp", "M", "a", "r", "k", "e", "t">>,
                          Repeat("a", PayeeExactLimit), Repeat("a", PayeeExactLimit + 1),
                          Repeat("a", PayeeExactLimit) \o <<" ", "K", "e", "s", "k", "o">>},
                       memo : {None},
                       amount : {-12500, -1000, 0, 8190, 45000, 45670}],
                category_id : {<<"g">>, <<"d">>},
                category_name : {<<"G", "r", "o", "c">>}]

suggest_rule_call ==
    /\ ret.op = "RulesEngine"
    /\ ret' = [op |-> "suggest_rule", txn |-> ret.txn,
               category_id |-> ret.category_id,
               category_name |-> ret.category_name,
               result |-> suggest_rule(ret.txn, ret.category_id,
                                       ret.category_name)]
    /\ UNCHANGED <<rules, rules_cache>>

SuggestNext == suggest_rule_call

SuggestSpec == SuggestInit /\ [][SuggestNext]_vars

(***************************************************************************)
(* The handlers of app/routers/suggestions.py that write rules             *)
(*                                                                         *)
(* The session flushes the rules added before every query, so a query      *)
(* inside a request sees them; a request that raises is rolled back.       *)
(***************************************************************************)
\* the rows the `existing` query finds: the active rules whose payee_exact
\* or payee_contains is the payee, and, for a direction given, whose amount
\* bounds are those of the direction or are both null
ExistingRules(table, payee_name, direction) ==
    {i \in 1..Len(table) :
        /\ table[i].is_active
        /\ \/ table[i].payee_exact = Some(payee_name)
           \/ table[i].payee_contains = Some(payee_name)
        /\ \/ direction = None
           \/ table[i].amount_min = None /\ table[i].amount_max = None
           \/ /\ direction = Some("incoming")
              /\ table[i].amount_min # None
              /\ table[i].amount_min[1] >= 0
           \/ /\ direction # Some("incoming")
              /\ table[i].amount_max # None
              /\ table[i].amount_max[1] < 0}

\* Rule(...) as the two handlers build it: amount_min 0.0 for incoming,
\* amount_max -0.01 otherwise, and the payee as it is, even if blank.  The
\* name is "Auto: " and the payee, cut at 35 or 30 characters, with a label
\* of the direction; the payees of the model are shorter, and the label is
\* left out: nothing reads it.
SuggestedRule(id, item, rule_type, priority) ==
    [NewRule(id, Form(<<"A", "u", "t", "o", ":", " ">> \o item.payee_name,
                      priority, item.category_id, item.category_name,
                      IF item.direction = "incoming"
                      THEN [amount_min |-> Some(0)]
                      ELSE [amount_max |-> Some(-10)]))
        EXCEPT !.payee_exact = IF rule_type = "exact" THEN Some(item.payee_name)
                               ELSE None,
               !.payee_contains = IF rule_type = "exact" THEN None
                                  ELSE Some(item.payee_name)]

\* scalar_one_or_none raises MultipleResultsFound on more than one row
create_rule_from_suggestion(item, rule_type) ==
    LET existing == ExistingRules(rules, item.payee_name, Some(item.direction))
    IN  /\ rules' = IF existing = {}
                    THEN Append(rules, SuggestedRule(Len(rules) + 1, item,
                                                     rule_type, 10))
                    ELSE rules
        /\ ret' = [op |-> "create_rule_from_suggestion", item |-> item,
                   rule_type |-> rule_type,
                   raised |-> Cardinality(existing) >= 2,
                   success |-> existing = {},
                   rule_id |-> IF existing = {} THEN Some(Len(rules) + 1)
                               ELSE None]
        /\ UNCHANGED rules_cache

\* the loop of bulk_create_rules over the suggestions not yet seen
RECURSIVE BulkLoop(_, _, _, _)
BulkLoop(table, suggestions, created_count, skipped_count) ==
    IF suggestions = <<>>
    THEN [raised |-> FALSE, table |-> table, created |-> created_count,
          skipped |-> skipped_count]
    ELSE LET item     == Head(suggestions)
             existing == ExistingRules(table, item.payee_name, None)
         IN  IF Cardinality(existing) >= 2
             THEN [raised |-> TRUE, table |-> table, created |-> created_count,
                   skipped |-> skipped_count]
             ELSE IF existing # {}
             THEN BulkLoop(table, Tail(suggestions), created_count,
                           skipped_count + 1)
             ELSE BulkLoop(Append(table, SuggestedRule(Len(table) + 1, item,
                                                       "exact", 10)),
                           Tail(suggestions), created_count + 1, skipped_count)

bulk_create_rules(suggestions) ==
    LET out == BulkLoop(rules, suggestions, 0, 0)
    IN  /\ rules' = IF out.raised THEN rules ELSE out.table
        /\ ret' = IF out.raised
                  THEN [op |-> "bulk_create_rules", suggestions |-> suggestions,
                        raised |-> TRUE]
                  ELSE [op |-> "bulk_create_rules", suggestions |-> suggestions,
                        raised |-> FALSE, created |-> out.created,
                        skipped |-> out.skipped]
        /\ UNCHANGED rules_cache

(***************************************************************************)
(* The specification of the repository under the two rule forms and the    *)
(* suggestions                                                             *)
(***************************************************************************)
\* the suggestions posted: two payees, one of them that of a rule form, in
\* both directions
SuggestionItems ==
    [payee_name : {<<"K", "M">>, <<"Z", "e", "d">>},
     category_id : {<<"g">>}, category_name : {<<"G", "r", "o", "c">>},
     direction : {"incoming", "outgoing"}]

SuggestionsNext ==
    \/ \E form \in RuleForms : Len(rules) < MaxRules /\ create_rule(form)
    \/ \E item \in SuggestionItems, rule_type \in {"exact", "contains"} :
          create_rule_from_suggestion(item, rule_type) /\ Len(rules') <= MaxRules
    \/ \E rule_id \in RuleIds : delete_rule(rule_id)
    \/ \E suggestions \in UNION {[1..n -> SuggestionItems] : n \in 0..2} :
          bulk_create_rules(suggestions) /\ Len(rules') <= MaxRules

SuggestionsSpec == Init /\ [][SuggestionsNext]_vars

(***************************************************************************)
(* Properties of the rules engine                                          *)
(***************************************************************************)
\* the rules of a list that match a transaction
Matching(rule_list, txn) ==
    {rule_list[k] : k \in {j \in 1..Len(rule_list) : rule_matches(rule_list[j], txn)}}

\* the active rows of the table that match a transaction
ActiveMatching(table, txn) ==
    {table[k] : k \in {j \in 1..Len(table) :
                          table[j].is_active /\ rule_matches(table[j], txn)}}

\* the record `out` names a rule of `candidates` that no rule of
\* `candidates` outranks, or names none when there is none
NamesTopPriority(out, candidates) ==
    IF candidates = {}
    THEN out.matched_rule_id = None /\ out.category_id = None
    ELSE \E r \in candidates :
            /\ out.matched_rule_id = Some(r.id)
            /\ out.category_id = Some(r.category_id)
            /\ \A q \in candidates : q.priority <= r.priority

\* C1: categorize_transactions gives every transaction the category of a
\* matching rule of the highest priority among the rules that match it,
\* whatever else the lower rules would have matched: among the rules of the
\* list the engine works with, and, for an upload, among the active rows of
\* the table.
C1_FirstMatchByPriority ==
    /\ ret.op = "categorize_transactions" =>
          \A i \in 1..Len(ret.result) :
             NamesTopPriority(ret.result[i],
                              Matching(rules_cache[1], ret.transactions[i]))
    /\ (ret.op = "upload_csv" /\ ~ret.raised) =>
          \A i \in 1..Len(ret.transactions) :
             NamesTopPriority(ret.transactions[i],
                              ActiveMatching(rules, ret.transactions[i]))

\* a transaction that a rule of priority 5 and a later-made rule of
\* priority 10 both match has been categorized
C1_Witness ==
    /\ ret.op = "categorize_transactions"
    /\ \E i \in 1..Len(ret.result) :
       \E r1, r2 \in Matching(rules_cache[1], ret.transactions[i]) :
          /\ r1.priority < r2.priority
          /\ r1.id < r2.id
          /\ ret.result[i].matched_rule_id = Some(r2.id)

\* C2: whenever categorize_transactions is called on a RulesEngine instance,
\* however the calls are interleaved with delete_rule, every rule a
\* transaction is matched to is active in the table at that time.
C2_OnlyActiveRulesMatch ==
    ret.op = "categorize_transactions" =>
        \A i \in 1..Len(ret.result) :
           ret.result[i].matched_rule_id # None =>
               rules[ret.result[i].matched_rule_id[1]].is_active

\* C3: an upload categorizes the transactions parsed from its file against
\* the active rows of the table as it stands at that request, whatever
\* list an engine made for an earlier batch still holds.
C3_UploadReadsCommittedRules ==
    (ret.op = "upload_csv" /\ ~ret.raised) =>
        \E pads_year \in Builds : \E rule_list \in ListActive(rules) :
           ret.transactions =
               categorize(ParsedUploads[ret.csv_content][pads_year].transactions,
                          rule_list)

\* an upload has been categorized while an engine of an earlier batch
\* holds a list that the table no longer gives, and a rule deleted since
\* would have matched
C3_Witness ==
    /\ ret.op = "upload_csv" /\ ~ret.raised
    /\ rules_cache # None
    /\ rules_cache[1] \notin ListActive(rules)
    /\ \E i \in 1..Len(ret.transactions) : \E k \in 1..Len(rules) :
          /\ ~rules[k].is_active
          /\ rule_matches(rules[k], ret.transactions[i])
          /\ ret.transactions[i].matched_rule_id # Some(k)

\* a step of the engine held, other than making a new engine, that leaves
\* it without a cached list
InvalidateStep ==
    /\ Next
    /\ ret'.op # "RulesEngine"
    /\ rules_cache' = RulesEngineInit

\* C4: an engine that holds a cached rule list has an operation that
\* clears it, so that the next get_rules reads the table again.
C4_CacheCanBeInvalidated ==
    rules_cache # None => ENABLED InvalidateStep

C6_TiesByInsertionOrder ==
    /\ ret.op = "get_rules" =>
          \A j, k \in 1..Len(ret.rule_list) :
             j < k =>
                \/ ret.rule_list[j].priority > ret.rule_list[k].priority
                \/ /\ ret.rule_list[j].priority = ret.rule_list[k].priority
                   /\ ret.rule_list[j].id < ret.rule_list[k].id
    /\ ret.op = "categorize_transactions" =>
          \A i \in 1..Len(ret.result) :
             \A r, q \in Matching(rules_cache[1], ret.transactions[i]) :
                (ret.result[i].matched_rule_id = Some(r.id)
                     /\ q.priority = r.priority) => r.id <= q.id

\* the eight predicates of a rule are all null
ZeroPredicates(rule) ==
    \A f \in DOMAIN NoPredicates : rule[f] = None

\* C7: a rule with no predicate matches every transaction, with or without
\* memo and whatever its payee and amount; a batch categorized with such a
\* rule in the list leaves no transaction uncategorized.
C7_EmptyRuleMatchesAll ==
    ret.op = "categorize_transactions" =>
        \A k \in 1..Len(rules_cache[1]) :
           ZeroPredicates(rules_cache[1][k]) =>
               \A i \in 1..Len(ret.transactions) :
                  /\ rule_matches(rules_cache[1][k], ret.transactions[i])
                  /\ ret.result[i].auto_categorized

\* a batch with a transaction without memo and one with memo has been
\* categorized to a rule with no predicate
C7_Witness ==
    /\ ret.op = "categorize_transactions"
    /\ \E k \in 1..Len(rules_cache[1]) : ZeroPredicates(rules_cache[1][k])
    /\ \E i, j \in 1..Len(ret.transactions) :
          /\ ret.transactions[i].memo = None
          /\ ret.transactions[j].memo # None
          /\ ret.transactions[i].amount < 0
          /\ ret.transactions[j].amount > 0
          /\ \E r \in {rules[k] : k \in 1..Len(rules)} :
                /\ ZeroPredicates(r)
                /\ ret.result[i].matched_rule_id = Some(r.id)

\* the record `out` is the record of transaction `txn` categorized among
\* the rules `candidates`
RecordOf(out, txn, candidates) ==
    /\ DOMAIN out = DOMAIN to_dict(txn) \cup
                    {"category_id", "category_name", "matched_rule_id",
                     "matched_rule_name", "auto_categorized"}
    /\ \A f \in DOMAIN to_dict(txn) : out[f] = to_dict(txn)[f]
    /\ out.auto_categorized = (candidates # {})
    /\ IF candidates = {}
       THEN /\ out.category_id = None
            /\ out.category_name = None
            /\ out.matched_rule_id = None
            /\ out.matched_rule_name = None
       ELSE \E r \in candidates :
               /\ out.category_id = Some(r.category_id)
               /\ out.category_name = Some(r.category_name)
               /\ out.matched_rule_id = Some(r.id)
               /\ out.matched_rule_name = Some(r.name)

\* C8: the result of categorize_transactions has one record for each
\* transaction of the batch, in the order of the batch; the record has the
\* category, id and name of one matching rule and auto_categorized true
\* when a rule of the engine's list matches (for an upload: an active row
\* of the table), and otherwise no category, no rule and auto_categorized
\* false.
C8_OneRecordPerTransaction ==
    /\ ret.op = "categorize_transactions" =>
          /\ Len(ret.result) = Len(ret.transactions)
          /\ \A i \in 1..Len(ret.transactions) :
                RecordOf(ret.result[i], ret.transactions[i],
                         Matching(rules_cache[1], ret.transactions[i]))
    /\ (ret.op = "upload_csv" /\ ~ret.raised) =>
          \E pads_year \in Builds :
             LET parsed == ParsedUploads[ret.csv_content][pads_year].transactions
             IN  /\ Len(ret.transactions) = Len(parsed)
                 /\ ret.total = Len(parsed)
                 /\ \A i \in 1..Len(parsed) :
                       RecordOf(ret.transactions[i], parsed[i],
                                ActiveMatching(rules, parsed[i]))

\* a batch of two has been categorized, one transaction to a rule and the
\* other to none
C8_Witness ==
    /\ ret.op = "categorize_transactions"
    /\ Len(ret.transactions) = 2
    /\ ret.transactions[1] # ret.transactions[2]
    /\ \E i, j \in 1..2 :
          /\ ret.result[i].auto_categorized
          /\ ~ret.result[j].auto_categorized

(***************************************************************************)
(* Properties of the parser                                                *)
(***************************************************************************)
\* the transactions of the lines that _parse_row makes a Transaction of,
\* in the order of the lines
RECURSIVE InterpretableRows(_, _, _)
InterpretableRows(fieldnames, lines, pads_year) ==
    IF lines = <<>> THEN <<>>
    ELSE LET r == parse_row(DictRow(fieldnames, lines[1]), pads_year)
         IN  (IF r.txn = None THEN <<>> ELSE r.txn)
                 \o InterpretableRows(fieldnames, Tail(lines), pads_year)

\* C9: parse does not raise, whatever a row holds: the rows that cannot be
\* interpreted are left out and the others give their transactions, in the
\* order of the rows.
C9_ParseNeverRaises ==
    ret.op = "parse" =>
        /\ ~ret.result.raised
        /\ ret.result.transactions =
               InterpretableRows(ret.csv_content.fieldnames, ret.csv_content.lines,
                                 ret.pads_year)

\* the date cell of a one-line text is d.m.y written DD.MM.YYYY
IsDateOf(csv_content, d, m, y) ==
    /\ Len(csv_content.lines) = 1
    /\ Len(csv_content.lines[1]) = 4
    /\ csv_content.lines[1][1] = DateText(d, m, y)

\* d.m.y is a day of the calendar
RealCalendarDay(d, m, y) ==
    /\ y >= 1
    /\ m \in 1..12
    /\ d >= 1
    /\ d <= (IF m \in {4, 6, 9, 11} THEN 30
             ELSE IF m # 2 THEN 31
             ELSE IF y % 4 = 0 /\ (y % 100 # 0 \/ y % 400 = 0) THEN 29 ELSE 28)

\* C10: a row dated DD.MM.YYYY with a day of the calendar gives a
\* transaction dated YYYY-MM-DD, four digits of year, two of month and two
\* of day, of that day; a row dated DD.MM.YYYY with no day of the calendar
\* gives no transaction.
C10_DateRoundTrip ==
    ret.op = "parse" =>
        \A d \in Days, m \in Months, y \in Years :
           IsDateOf(ret.csv_content, d, m, y) =>
               IF RealCalendarDay(d, m, y)
               THEN /\ Len(ret.result.transactions) = 1
                    /\ ret.result.transactions[1].date =
                           ZeroPad(NatToStr(y), 4) \o <<"-">> \o ZeroPad(NatToStr(m), 2)
                               \o <<"-">> \o ZeroPad(NatToStr(d), 2)
               ELSE ret.result.transactions = <<>>

\* the payee a row is to show: its payee cell if not blank, else its
\* explanation cell if not blank, else Unknown
ExpectedPayee(row) ==
    LET payee_cell == Get(row, "payee", None)
        expl_cell  == Get(row, "explanation", None)
    IN  IF Truthy(payee_cell) /\ Strip(payee_cell[1]) # <<>> THEN Strip(payee_cell[1])
        ELSE IF Truthy(expl_cell) /\ Strip(expl_cell[1]) # <<>> THEN Strip(expl_cell[1])
        ELSE <<"U", "n", "k", "n", "o", "w", "n">>

\* C11: every transaction parse emits has a payee that is not empty, and
\* the transaction of a one-line text has the payee cell of the line when
\* that is not blank, else its explanation cell when that is not blank,
\* else Unknown.
C11_PayeeNeverEmpty ==
    (ret.op = "parse" /\ ~ret.result.raised) =>
        /\ \A i \in 1..Len(ret.result.transactions) :
              ret.result.transactions[i].payee # <<>>
        /\ (Len(ret.csv_content.lines) = 1 /\ Len(ret.result.transactions) = 1) =>
              ret.result.transactions[1].payee =
                  ExpectedPayee(DictRow(ret.csv_content.fieldnames,
                                        ret.csv_content.lines[1]))

\* the id the rule of the import id gives a transaction: OP: and the
\* archive id when there is one, else YNAB:, the amount in milliunits, the
\* date and the hash of date, payee and amount
ExpectedImportId(date, payee, amount, archive_id) ==
    IF archive_id # None /\ archive_id[1] # <<>>
    THEN <<"O", "P", ":">> \o archive_id[1]
    ELSE <<"Y", "N", "A", "B", ":">> \o IntToStr(amount) \o <<":">> \o date \o <<":">>
             \o Md5Hex8(date \o <<":">> \o payee \o <<":">> \o FloatRepr(amount))

\* C12: the import id of every transaction parse emits is the function of
\* its date, payee, amount and archive id that the rule of the import id
\* states, the amount being written as its milliunits (amount x 1000).
C12_ImportIdFunction ==
    (ret.op = "parse" /\ ~ret.result.raised) =>
        \A i \in 1..Len(ret.result.transactions) :
           LET t == ret.result.transactions[i]
           IN  t.import_id = ExpectedImportId(t.date, t.payee, t.amount, t.archive_id)

\* C13 as stated: whichever one of date, payee, amount and archive id is
\* changed, the others kept, the import id changes.
C13_AnyInputChangesId ==
    ret.op = "generate_import_id" =>
        /\ \A date \in IdDates \ {ret.date} :
              generate_import_id(date, ret.payee, ret.amount, ret.archive_id)
                  # ret.result
        /\ \A payee \in IdPayees \ {ret.payee} :
              generate_import_id(ret.date, payee, ret.amount, ret.archive_id)
                  # ret.result
        /\ \A amount \in IdAmounts \ {ret.amount} :
              generate_import_id(ret.date, ret.payee, amount, ret.archive_id)
                  # ret.result
        /\ \A archive_id \in IdArchiveIds \ {ret.archive_id} :
              generate_import_id(ret.date, ret.payee, ret.amount, archive_id)
                  # ret.result

\* there is an archive id: one that is not blank
HasArchiveId(archive_id) == archive_id # None /\ archive_id[1] # <<>>

\* C13: a change of the archive id changes the import id unless there is
\* no archive id before and after; without an archive id a change of the
\* date, of the payee or of the amount changes the import id; with an
\* archive id the import id is OP: and the archive id, whatever the date,
\* the payee and the amount.
C13_InputChangesIdAmended ==
    ret.op = "generate_import_id" =>
        /\ \A archive_id \in IdArchiveIds \ {ret.archive_id} :
              (HasArchiveId(archive_id) \/ HasArchiveId(ret.archive_id)) =>
                  generate_import_id(ret.date, ret.payee, ret.amount, archive_id)
                      # ret.result
        /\ ~HasArchiveId(ret.archive_id) =>
              /\ \A date \in IdDates \ {ret.date} :
                    generate_import_id(date, ret.payee, ret.amount, ret.archive_id)
                        # ret.result
              /\ \A payee \in IdPayees \ {ret.payee} :
                    generate_import_id(ret.date, payee, ret.amount, ret.archive_id)
                        # ret.result
              /\ \A amount \in IdAmounts \ {ret.amount} :
                    generate_import_id(ret.date, ret.payee, amount, ret.archive_id)
                        # ret.result
        /\ HasArchiveId(ret.archive_id) =>
              ret.result = <<"O", "P", ":">> \o ret.archive_id[1]

\* an id has been made without archive id for the amount 8.19, whose
\* milliunits part is that of 8.189
C13_Witness ==
    /\ ret.op = "generate_import_id"
    /\ ~HasArchiveId(ret.archive_id)
    /\ ret.amount = 8190
    /\ IntTimes1000(8189) = IntTimes1000(ret.amount)
    /\ SubSeq(ret.result, 1, 5) = <<"Y", "N", "A", "B", ":">>

\* C14: the transactions parse emits for the rows of one text have import
\* ids that differ from one another, also when two rows have the same
\* date, payee and amount and no archive id.
C14_ImportIdsDiffer ==
    (ret.op = "parse" /\ ~ret.result.raised) =>
        \A i, j \in 1..Len(ret.result.transactions) :
           i # j => ret.result.transactions[i].import_id
                        # ret.result.transactions[j].import_id

(***************************************************************************)
(* Properties of the pattern analyzer                                      *)
(***************************************************************************)
\* the transactions of the history in the group of a payee and a direction
GroupMembers(transactions, payee, direction) ==
    {i \in 1..Len(transactions) :
        /\ PayeeOf(transactions[i]) = payee
        /\ (transactions[i].amount >= 0) = (direction = "incoming")}

\* those of them that carry the category
CategoryMembers(transactions, payee, direction, cat_id) ==
    {i \in GroupMembers(transactions, payee, direction) :
        transactions[i].category_id = Some(cat_id)}

AnalyzedPayees == {PayeeOf(t) : t \in {ret.transactions[i] : i \in 1..Len(ret.transactions)}}
    \ {<<>>, TransferPrefix \o <<" ", "S">>}

AnalyzedCategories == {<<"g">>, <<"d">>, <<"r">>, <<"x">>}

Suggested(payee, direction, cat_id) ==
    \E k \in 1..Len(ret.result) :
        /\ ret.result[k].payee_name = payee
        /\ ret.result[k].direction = direction
        /\ ret.result[k].category_id = cat_id

\* C15: analyze suggests a category for a (payee, direction) group exactly
\* when the group has at least min_transactions transactions, the category
\* is a real one and (count / group size) * 100 is at least the threshold
C15_SuggestedIffThreshold ==
    ret.op = "analyze" =>
        \A payee \in AnalyzedPayees, direction \in {"incoming", "outgoing"},
           cat_id \in AnalyzedCategories :
            LET size  == Cardinality(GroupMembers(ret.transactions, payee, direction))
                count == Cardinality(CategoryMembers(ret.transactions, payee,
                                                     direction, cat_id))
            IN  Suggested(payee, direction, cat_id)
                    <=> /\ size >= ret.min_transactions
                        /\ count >= 1
                        /\ count * 1000 >= ret.threshold * size

\* the history of five refunds and five purchases of one payee
RefundsAndPurchases ==
    Repeat(Txn(<<"K", "m">>, Category.Refund, 1000), 5)
        \o Repeat(Txn(<<"K", "m">>, Category.Groceries, -1000), 5)

\* C16: the transactions are partitioned by (payee, direction), incoming
\* being an amount of zero or more: every suggestion counts, and samples,
\* the transactions of its payee and its direction only, and five refunds
\* with five purchases of one payee give two suggestions of confidence 100
\* with total_for_payee 5
C16_PartitionByPayeeAndDirection ==
    ret.op = "analyze" =>
        /\ \A k \in 1..Len(ret.result) :
              LET s      == ret.result[k]
                  group  == GroupMembers(ret.transactions, s.payee_name, s.direction)
                  of     == CategoryMembers(ret.transactions, s.payee_name,
                                            s.direction, s.category_id)
              IN  /\ s.total_for_payee = Cardinality(group)
                  /\ s.transaction_count = Cardinality(of)
                  /\ s.confidence.num * s.total_for_payee
                        = s.transaction_count * 100 * s.confidence.den
                  /\ \A j \in 1..Len(s.sample_transactions) :
                        \E i \in of : ret.transactions[i] = s.sample_transactions[j]
        /\ (ret.transactions = RefundsAndPurchases /\ ret.min_transactions <= 5)
              => /\ Len(ret.result) = 2
                 /\ {<<ret.result[k].direction, ret.result[k].category_id>> :
                        k \in 1..2} = {<<"incoming", <<"r">>>>, <<"outgoing", <<"g">>>>}
                 /\ \A k \in 1..2 :
                        /\ ret.result[k].confidence = [num |-> 100, den |-> 1]
                        /\ ret.result[k].total_for_payee = 5
                        /\ ret.result[k].payee_name = <<"K", "m">>

\* analyze has returned two suggestions for the refunds and the purchases
\* of one payee, and has put amounts of zero with the incoming ones
C16_Witness ==
    /\ ret.op = "analyze"
    /\ \/ ret.transactions = RefundsAndPurchases
       \/ ret.transactions = Repeat(Txn(<<"K", "m">>, Category.Refund, 0), 5)
                                 \o Repeat(Txn(<<"K", "m">>, Category.Groceries, -1000), 5)
    /\ Len(ret.result) = 2
    /\ ret.result[1].direction # ret.result[2].direction

\* C17: the suggestions are in descending order of confidence, and those of
\* equal confidence in descending order of transaction_count
C17_SortedByConfidenceThenCount ==
    ret.op = "analyze" =>
        \A k \in 1..(Len(ret.result) - 1) :
            LET a == ret.result[k]
                b == ret.result[k + 1]
            IN  \/ a.confidence.num * b.confidence.den
                      > b.confidence.num * a.confidence.den
                \/ /\ a.confidence.num * b.confidence.den
                          = b.confidence.num * a.confidence.den
                   /\ a.transaction_count >= b.transaction_count

\* analyze has returned suggestions in another order than it found them,
\* two of them of equal confidence and different counts
C17_Witness ==
    /\ ret.op = "analyze"
    /\ Len(ret.result) >= 3
    /\ ret.result # Suggestions(ret.transactions, GroupKeys(ret.transactions),
                                ret.threshold, ret.min_transactions)
    /\ \E k \in 1..(Len(ret.result) - 1) :
          /\ ret.result[k].confidence = ret.result[k + 1].confidence
          /\ ret.result[k].transaction_count > ret.result[k + 1].transaction_count
    /\ \E k \in 1..(Len(ret.result) - 1) :
          ret.result[k].confidence # ret.result[k + 1].confidence

(***************************************************************************)
(* Properties of the client                                                *)
(***************************************************************************)
\* the transactions requests a call has made
Posts == {i \in 1..Len(ret.result.requests) : ret.result.requests[i].method = "POST"}

DefaultAccounts ==
    IF ret.accounts_cache # None THEN ret.accounts_cache[1]
    ELSE IF ret.service_accounts = None THEN <<>>
    ELSE LET all == ret.service_accounts[1]
             open == {i \in 1..Len(all) : ~all[i].closed /\ ~all[i].deleted}
         IN  IF open = {} THEN <<>> ELSE <<all[Min(open)]>>

NotValidRegex(pattern) == ReError(pattern) \/ ReOverflow(pattern)

\* the rule without the regex predicates that are not valid
WithoutInvalidRegex(rule) ==
    [rule EXCEPT
        !.payee_regex = IF @ # None /\ NotValidRegex(@[1]) THEN None ELSE @,
        !.memo_regex = IF @ # None /\ NotValidRegex(@[1]) THEN None ELSE @]

\* C19: a rule whose payee_regex, or whose memo_regex when the transaction
\* has a memo, is not a valid regular expression matches exactly when its
\* other predicates hold, and evaluating it does not raise
C19_InvalidRegexSkipped ==
    (/\ ret.op = "_rule_matches"
     /\ \/ ret.rule.payee_regex # None /\ NotValidRegex(ret.rule.payee_regex[1])
        \/ /\ ret.rule.memo_regex # None
           /\ NotValidRegex(ret.rule.memo_regex[1])
           /\ Truthy(ret.txn.memo))
        => /\ ~ret.raised
           /\ ret.result = Some(rule_matches(WithoutInvalidRegex(ret.rule), ret.txn)
                                /\ (ret.rule.memo_regex # None => Truthy(ret.txn.memo)))

\* C20: a rule with memo_contains or memo_regex does not match a
\* transaction without memo, whatever its other predicates and its
\* pattern; with a memo, a rule that matches has its memo_contains in the
\* memo, letter case aside, and its valid memo_regex found in it, and a
\* rule of memo predicates alone matches exactly when both hold
C20_MemoPredicatesNeedMemo ==
    ret.op = "_rule_matches" =>
        LET rule == ret.rule
            memo == ret.txn.memo
            contains == rule.memo_contains # None =>
                            Contains(Upper(memo[1]), Upper(rule.memo_contains[1]))
            found == (rule.memo_regex # None /\ ~NotValidRegex(rule.memo_regex[1])) =>
                            ReSearch(rule.memo_regex[1], memo[1])
        IN  /\ ((rule.memo_contains # None \/ rule.memo_regex # None)
                   /\ (memo = None \/ memo = Some(<<>>)))
                  => ret.result # Some(TRUE)
            /\ (Truthy(memo) /\ ret.result = Some(TRUE)) => (contains /\ found)
            /\ (/\ Truthy(memo)
                /\ ~ret.raised
                /\ rule.payee_contains = None
                /\ rule.payee_regex = None
                /\ rule.amount_exact = None
                /\ rule.amount_min = None
                /\ rule.amount_max = None)
                  => ret.result = Some(contains /\ found)

\* a rule whose other predicates hold and whose memo_regex is not valid has
\* been evaluated on a transaction without memo, and has not matched
C20_Witness ==
    /\ ret.op = "_rule_matches"
    /\ ret.txn.memo = None
    /\ ret.rule.memo_contains = None
    /\ ret.rule.memo_regex = Some(<<"(">>)
    /\ rule_matches([ret.rule EXCEPT !.memo_regex = None], ret.txn)
    /\ ret.result = Some(FALSE)

\* the rule names amount predicates only
AmountPredicatesOnly(rule) ==
    /\ rule.payee_exact = None /\ rule.payee_contains = None
    /\ rule.payee_regex = None
    /\ rule.memo_contains = None /\ rule.memo_regex = None

\* C21: amount_exact holds iff the amount is within 0.01 of it, amount_min
\* iff the amount is at least it and amount_max iff the amount is at most
\* it: a rule of amount predicates alone matches exactly when those it
\* names hold so
C21_AmountPredicates ==
    (ret.op = "_rule_matches" /\ AmountPredicatesOnly(ret.rule)) =>
        LET rule == ret.rule
            amount == ret.txn.amount
        IN  ret.result
                = Some(/\ rule.amount_exact # None
                            => Abs(amount - rule.amount_exact[1]) <= 10
                       /\ rule.amount_min # None => amount >= rule.amount_min[1]
                       /\ rule.amount_max # None => amount <= rule.amount_max[1])

\* the text is YYYY-MM-DD and names a day of the calendar
IsoCalendarDay(s) ==
    /\ Len(s) = 10
    /\ IsoDateMatches(s)
    /\ RealCalendarDay(StrToInt(SubSeq(s, 9, 10)), StrToInt(SubSeq(s, 6, 7)),
                       StrToInt(SubSeq(s, 1, 4)))

\* the whole of the text has the shape DD.MM.YYYY, the day and the month
\* of one or two digits, or the shape YYYY-MM-DD
HasDateShape(s) ==
    \/ \E nm \in FinnishDateMatches(s) : Len(s) = nm[1] + nm[2] + 6
    \/ IsoDateMatches(s) /\ Len(s) = 10

\* C22: every transaction parse gives is dated YYYY-MM-DD with a day of the
\* calendar, and a row whose date cell has another shape than DD.MM.YYYY or
\* YYYY-MM-DD, such as one of these followed by more characters, gives no
\* transaction
C22_DatesAreCalendarDays ==
    ret.op = "parse" =>
        /\ \A k \in 1..Len(ret.result.transactions) :
              IsoCalendarDay(ret.result.transactions[k].date)
        /\ (/\ Len(ret.csv_content.lines) = 1
            /\ Len(ret.csv_content.lines[1]) = 4
            /\ ~HasDateShape(Strip(ret.csv_content.lines[1][1])))
              => ret.result.transactions = <<>>

\* the amounts, in thousandths, the amount cells are to be read as
ExpectedAmount ==
    (<<"1", ".", "2", "3", "4", ",", "5", "6">> :> 1234560)
    @@ (<<"4", "5", ",", "0", "0">> :> 45000)
    @@ (<<"-", "1", "2", ",", "5", "0">> :> -12500)
    @@ (<<"1", "nbsp", "2", "3", "4", ",", "5", "6">> :> 1234560)
    @@ (<<"1", " ", "2", ",", "5">> :> 12500)
    @@ (<<" ", "7", " ">> :> 7000)
    @@ (<<"1", ".", "5">> :> 1500)
    @@ (<<"1", ".", "2", "3", "4">> :> 1234)
    @@ (<<"1", ".", "2", ".", "3", ",", "4">> :> 123400)
    @@ (<<"1", ",", "2", "3", "4", ",", "5", "6">> :> 0)
    @@ (<<"a", "b", "c">> :> 0)
    @@ (<<"-">> :> 0)
    @@ (<<",">> :> 0)
    @@ (<<>> :> 0)

\* C23: an amount cell is read with its spaces and non-breaking spaces
\* taken out, its points taken out only when it has a comma too, and its
\* comma as the decimal point; a cell that is no number then gives 0.0,
\* and its row is emitted with that amount
C23_AmountParsing ==
    ret.op = "parse" =>
        \A amount \in DOMAIN ExpectedAmount :
            ret.csv_content.lines
                  = <<<<DateText(15, 3, 2024), amount, <<"K", "m">>, <<>>>>>>
               => /\ Len(ret.result.transactions) = 1
                  /\ ret.result.transactions[1].amount = ExpectedAmount[amount]

\* parse has read 1.5 as one and a half and has emitted a row whose amount
\* is no number with amount 0.0
C23_Witness ==
    /\ ret.op = "parse"
    /\ Len(ret.csv_content.lines) = 1
    /\ Len(ret.result.transactions) = 1
    /\ \/ /\ ret.csv_content.lines[1][2] = <<"1", ".", "5">>
          /\ ret.result.transactions[1].amount = 1500
       \/ /\ ret.csv_content.lines[1][2] = <<"a", "b", "c">>
          /\ ret.result.transactions[1].amount = 0

\* the transactions of a group that carry no category
UncategorizedMembers(transactions, payee, direction) ==
    {i \in GroupMembers(transactions, payee, direction) :
        ~Truthy(transactions[i].category_id)}

\* C24: the transactions without category count in the size of their group,
\* the denominator of the confidence, and no suggestion is for the bucket
\* they are tallied in
C24_UncategorizedCountsButNeverSuggested ==
    ret.op = "analyze" =>
        \A k \in 1..Len(ret.result) :
            LET s       == ret.result[k]
                group   == GroupMembers(ret.transactions, s.payee_name, s.direction)
                without == UncategorizedMembers(ret.transactions, s.payee_name,
                                                s.direction)
                with    == group \ without
            IN  /\ s.category_id # Uncategorized
                /\ s.category_id # <<>>
                /\ \E i \in with : ret.transactions[i].category_id = Some(s.category_id)
                /\ s.total_for_payee = Cardinality(with) + Cardinality(without)
                /\ s.confidence.num * (Cardinality(with) + Cardinality(without))
                      = 100 * s.transaction_count * s.confidence.den

\* analyze has suggested the one category of a group that has transactions
\* without category too, with a confidence below 100
C24_Witness ==
    /\ ret.op = "analyze"
    /\ Len(ret.result) = 1
    /\ UncategorizedMembers(ret.transactions, ret.result[1].payee_name,
                            ret.result[1].direction) # {}
    /\ ret.result[1].transaction_count + 1 = ret.result[1].total_for_payee
    /\ ret.result[1].confidence = [num |-> 75, den |-> 1]

(***************************************************************************)
(* Properties of suggest_rule                                              *)
(***************************************************************************)
\* the indices of the whitespace-separated tokens of the payee that are
\* longer than 3 characters and none of OY, AB, OYJ
LongTokens(payee) ==
    {i \in 1..Len(Split(payee)) :
        /\ Len(Split(payee)[i]) >= 4
        /\ \A w \in {<<"O", "Y">>, <<"A", "B">>, <<"O", "Y", "J">>} :
              Upper(Split(payee)[i]) # w}

\* the draft has amount_exact, equal to the amount, exactly when the amount
\* is a whole number
AmountExactIffWhole ==
    /\ ret.result.amount_exact # None <=> (ret.txn.amount % 1000 = 0)
    /\ ret.result.amount_exact # None => ret.result.amount_exact = Some(ret.txn.amount)

\* C25: the draft has payee_exact, the payee, when the payee has at most 30
\* characters and no whitespace inside it; otherwise it has payee_contains,
\* the first token of the payee longer than 3 characters that is not OY, AB
\* or OYJ; and it has amount_exact, the amount, exactly when the amount is
\* a whole number
C25_SuggestRuleDraft ==
    ret.op = "suggest_rule" =>
        LET payee == ret.txn.payee
            short == /\ Len(payee) <= 30
                     /\ \A i \in 1..Len(Strip(payee)) : Strip(payee)[i] \notin WhiteSpace
        IN  /\ IF short
               THEN /\ ret.result.payee_exact = Some(payee)
                    /\ ret.result.payee_contains = None
               ELSE /\ ret.result.payee_exact = None
                    /\ LongTokens(payee) # {}
                    /\ ret.result.payee_contains
                          = Some(Split(payee)[Min(LongTokens(payee))])
            /\ AmountExactIffWhole

\* C25, amended: the draft has payee_exact, the payee, when the payee has
\* at most 30 characters and no space character; otherwise it has
\* payee_contains, the first token of the payee longer than 3 characters,
\* or the first token when no token is that long, and no payee predicate
\* when the payee has no token; and it has amount_exact, the amount,
\* exactly when the amount is a whole number
C25_SuggestRuleDraftAmended ==
    ret.op = "suggest_rule" =>
        LET payee == ret.txn.payee
            short == Len(payee) <= 30 /\ \A i \in 1..Len(payee) : payee[i] # " "
        IN  /\ IF short
               THEN /\ ret.result.payee_exact = Some(payee)
                    /\ ret.result.payee_contains = None
               ELSE /\ ret.result.payee_exact = None
                    /\ ret.result.payee_contains
                          = IF Split(payee) = <<>> THEN None
                            ELSE IF LongTokens(payee) = {} THEN Some(Split(payee)[1])
                            ELSE Some(Split(payee)[Min(LongTokens(payee))])
            /\ AmountExactIffWhole

\* suggest_rule has passed over a short first word and has drafted
\* payee_contains with the word after it, and amount_exact with the whole
\* amount
C25_Witness ==
    /\ ret.op = "suggest_rule"
    /\ ret.txn.payee = <<"O", "y", " ", "K", "e", "s", "k", "o", " ",
                         "M", "a", "r", "k", "e", "t">>
    /\ ret.result.payee_contains = Some(<<"K", "e", "s", "k", "o">>)
    /\ ret.txn.amount = 45000
    /\ ret.result.amount_exact = Some(45000)

\* the rule create_rule makes of the draft posted as its form
DraftedRule ==
    NewRule(1, Form(ret.result.name, ret.result.priority, ret.result.category_id,
                    ret.result.category_name,
                    [payee_exact |-> ret.result.payee_exact,
                     payee_contains |-> ret.result.payee_contains,
                     amount_exact |-> ret.result.amount_exact]))

\* C26: the draft of suggest_rule has a match predicate whose value is not
\* empty, and the rule create_rule makes of it is not a rule without
\* predicates
C26_DraftHasPredicate ==
    ret.op = "suggest_rule" =>
        /\ \/ Truthy(ret.result.payee_exact)
           \/ Truthy(ret.result.payee_contains)
           \/ ret.result.amount_exact # None
        /\ ~ZeroPredicates(DraftedRule)

(***************************************************************************)
(* Properties of the rules made of suggestions                             *)
(***************************************************************************)
\* the rule matches the transactions of the payee whose direction, as the
\* analyzer has it, is the direction, and no other of the payee
MatchesDirection(rule, payee_name, direction) ==
    \A amount \in {-1000, -10, -5, 0, 5, 1000} :
        rule_matches(rule, [payee |-> payee_name, memo |-> None, amount |-> amount])
            <=> ((amount >= 0) <=> (direction = "incoming"))

\* C27: a rule made of a suggestion for a payee and a direction, by
\* create_rule_from_suggestion with rule_type exact or by
\* bulk_create_rules, matches a transaction of that payee exactly when the
\* direction of the transaction, incoming for an amount of zero or more
\* and outgoing below, is that of the suggestion
C27_SuggestedRuleMatchesDirection ==
    /\ (/\ ret.op = "create_rule_from_suggestion"
        /\ ret.success
        /\ ret.rule_type = "exact")
          => MatchesDirection(rules[ret.rule_id[1]], ret.item.payee_name,
                              ret.item.direction)
    /\ (ret.op = "bulk_create_rules" /\ ~ret.raised)
          => \A i \in (Len(rules) - ret.created + 1)..Len(rules) :
                LET of    == {j \in 1..Len(ret.suggestions) :
                                 Some(ret.suggestions[j].payee_name)
                                     = rules[i].payee_exact}
                    first == ret.suggestions[Min(of)]
                IN  MatchesDirection(rules[i], first.payee_name, first.direction)

\* the payee has an active rule with that payee_exact or payee_contains
HasActiveRule(table, payee_name) ==
    \E i \in 1..Len(table) :
        /\ table[i].is_active
        /\ Some(payee_name) \in {table[i].payee_exact, table[i].payee_contains}

\* C28: whatever create_rule, create_rule_from_suggestion, delete_rule and
\* bulk_create_rules have done before, a call of bulk_create_rules does not
\* raise, its created and skipped counts add up to the number of
\* suggestions, and it skips the suggestions whose payee has an active rule
\* with that payee_exact or payee_contains, those made earlier in the call
\* included, and no other
C28_BulkCreateCompletes ==
    [][ret'.op = "bulk_create_rules" =>
          /\ ~ret'.raised
          /\ ret'.created + ret'.skipped = Len(ret'.suggestions)
          /\ ret'.skipped
                = Cardinality({i \in 1..Len(ret'.suggestions) :
                      \/ HasActiveRule(rules, ret'.suggestions[i].payee_name)
                      \/ \E j \in 1..(i - 1) :
                            ret'.suggestions[j].payee_name
                                = ret'.suggestions[i].payee_name})]_vars

====
